---- MODULE Spec2Model ----
(***************************************************************************)
(* Email scraper: the scraping orchestration engine (scraper.py), the      *)
(* browser pool (selenium_scraper.py) and the project routes that feed     *)
(* it (projects_api.py, admin_routes.py, health.py).                       *)
(*                                                                         *)
(* Four specifications share the module:                                   *)
(*   Spec      - the run orchestrator: start_scraping's main thread, the   *)
(*               ThreadPoolExecutor workers running process_homepage, the  *)
(*               project row, the records, the browser pool and the        *)
(*               routes that set the pause flag and enqueue jobs.  A call  *)
(*               of scrape_with_fallback is one step there.                *)
(*   SpecPool  - one batch, larger than the pool, submitted to the         *)
(*               executor: the workers take its tasks concurrently and     *)
(*               update the progress of the project.                       *)
(*   SpecFetch - scrape_with_fallback itself, statement by statement, as   *)
(*               called by concurrent workers: domain rate limiter, proxy  *)
(*               pool, direct retries, browser fallback, on a clock.       *)
(*   SpecPage  - process_homepage on one homepage after its fetch          *)
(*               succeeded: email extraction and validation, link          *)
(*               selection, the crawl of the internal pages, the stored    *)
(*               aggregate.                                                *)
(***************************************************************************)
EXTENDS Integers, Sequences, FiniteSets, TLC

(***************************************************************************)
(* Bounds                                                                  *)
(***************************************************************************)
MaxUpload == 2      \* lines in the upload that creates the project
BatchSize == 1      \* SCRAPER_BATCH_SIZE
MaxThreads == 2     \* settings.max_threads
MaxInternal == 1    \* settings.max_internal_links
MaxJobs == 2        \* engine runs enqueued over the life of the project
MaxRetries == 2     \* settings.max_retries
MaxProxyRows == 2   \* active Proxy rows of the user
MaxCalls == 2       \* scrape_with_fallback calls followed in SpecFetch
MaxTime == 3        \* last second of the clock in SpecFetch
min_delay == 1      \* DOMAIN_RATE_LIMIT, in seconds
fail_threshold == 2 \* PROXY_FAIL_THRESHOLD
MaxLinksSetting == 2 \* largest Settings.max_internal_links in SpecPage
MaxPageEmails == 1  \* email strings in one fetched document
PoolBatch == 3      \* rows of the batch submitted in SpecPool
MaxSoupLinks == 2   \* links of the document given to extract_social_links
MaxPieces == 4       \* pieces of the line given to normalize_url
MaxAnchors == 2     \* links of the document given to extract_structured_links
MaxThreadObjects == 3 \* worker threads started in SpecBrowser
MaxIdents == 2      \* thread idents the interpreter hands out
MaxInstances == 3   \* SeleniumScraper objects created in SpecBrowser
RecycleEvery == 2   \* browser escalations between two recyclings (100)

VARIABLES
  \* ---- storage collaborator: the project row, its URLs, its records ----
  project_urls,     \* ProjectURL rows of the project, in id order
  records,          \* ScrapedData rows of the project, in insertion order
  status,           \* Project.status
  paused,           \* Project.paused
  total_urls,       \* Project.total_urls
  processed_urls,   \* Project.processed_urls
  emails_found,     \* Project.emails_found
  progress,         \* Project.progress
  jobs,             \* scrape_project_job messages waiting in the queue
  enqueued,         \* jobs enqueued so far (caps jobs)
  \* ---- start_scraping: the orchestrating thread ----
  mpc,              \* position of the orchestrating thread
  offset,           \* batch offset
  already_scraped,  \* normalized homepage URLs that had a record at start
  use_playwright,   \* PLAYWRIGHT_AVAILABLE and PLAYWRIGHT_FALLBACK
  \* ---- ThreadPoolExecutor ----
  queue,            \* submitted process_homepage tasks not yet started
  wpc,              \* position of each worker thread
  wurl,             \* index of the ProjectURL each worker is processing
  wemails,          \* len(all_emails) of each worker's aggregate
  wlinks,           \* internal links each worker has still to crawl
  wread,            \* counts each worker read for the progress update
  \* ---- selenium_scraper.py ----
  scraper_pool,     \* keys of _scraper_pool (thread idents)
  browser_open,     \* per thread: _browser_storage holds a live browser
  \* ---- observation of the current run ----
  outcome,          \* per ProjectURL: how its process_homepage returned
  fetches,          \* per ProjectURL: homepage scrape_with_fallback calls
  inflight,         \* per ProjectURL: passed its pause check before a pause
  everPaused,       \* the pause flag was set at some moment of the run
  exit_path,        \* how start_scraping left its try block
  loopSawPause,     \* the batch loop observed the pause flag and broke
  batches,          \* batches submitted
  \* ---- DomainRateLimiter and the clock ----
  now,              \* time.time(), in whole seconds
  last_request,     \* rate_limiter.last_request, per domain
  rl_lock,          \* worker holding rate_limiter.lock, 0 when free
  \* ---- proxy pool of the run ----
  proxies_list,     \* the active pool
  use_proxies,      \* settings.use_proxies, cleared when no proxy works
  max_retries,      \* settings.max_retries
  proxy_failures,   \* failures recorded per proxy
  fphase,           \* "setup" before the proxy health test, "run" after
  \* ---- scrape_with_fallback, per calling worker ----
  playwright_count, \* browser attempts of the run
  calls,            \* calls started so far (caps the calls)
  fpc,              \* position inside the call
  furl,             \* url
  is_homepage,      \* is_homepage
  retries,          \* retries
  attempt,          \* attempt
  proxy,            \* proxy of the current attempt, "None" without one
  requests_result,  \* requests_result is not None
  response,         \* status code answered to the latest direct attempt
  browser_result,   \* status of the call's scrape_url_playwright result
  needs_playwright, \* needs_playwright
  wake,             \* end of the time.sleep the worker is in
  \* ---- observation of the fetch layer ----
  returned,         \* what the worker's latest call returned
  http_status,      \* per worker: http_status of the result it holds or returned
  working_proxies,  \* what test_proxies_parallel returned
  last_attempt,     \* per domain: start of the latest request attempt
  too_close,        \* per domain: two attempts started < min_delay apart
  \* ---- settings and filters read while a homepage is processed ----
  max_internal_links,     \* Settings.max_internal_links
  url_exclusion_patterns, \* Settings.url_exclusion_patterns, split
  email_filters,          \* patterns of the user's active EmailFilter rows
  \* ---- process_homepage on one homepage, after its fetch succeeded ----
  hpc,              \* position inside process_homepage
  page_links,       \* page_data['links'] of the homepage
  links_to_scrape,  \* links_to_scrape
  link_idx,         \* links of links_to_scrape the for loop has taken
  checked_links,    \* checked_links
  all_emails,       \* all_emails
  social_links,     \* social_links
  emails_list,      \* ScrapedData.emails_list of the stored record
  int_emails,       \* page_data['emails'], then int_data['emails']
  filter_query_raises, \* the EmailFilter query of is_valid_email raises
  \* ---- one call of an extraction function ----
  xpc,              \* "idle", "call" before the function ran, "done" after
  in_email,         \* is_valid_email: the email argument
  out_valid,        \* is_valid_email: what it returned
  in_text,          \* extract_emails_from_text: the text argument
  intended,         \* the address in_text was written from
  out_emails,       \* extract_emails_from_text: what it returned
  in_soup,          \* extract_social_links: the links of the document
  out_social,       \* extract_social_links: what it returned
  taken_from,       \* per platform: the link its URL was taken from
  in_anchors,       \* extract_structured_links: the links of the document
  has_main,         \* the document has a main content element
  out_links,        \* extract_structured_links: what it returned
  in_url,           \* normalize_url: the line it is called on
  out_url,          \* normalize_url(in_url): the homepage_url that is stored
  out_key,          \* normalize_url(out_url): the key of already_scraped
  \* ---- selenium_scraper.py: the pool and the threads' storage ----
  alive,            \* worker threads that are running
  started,          \* worker threads started so far
  ident,            \* per thread: threading.current_thread().ident
  instance_pool,    \* _scraper_pool: per ident its scraper object, 0 absent
  created,          \* SeleniumScraper objects created so far
  scraper,          \* per thread: what get_selenium_scraper last returned
  storage_playwright, \* per thread: _browser_storage.playwright is set
  storage_browser,  \* per thread: _browser_storage holds a live browser
  users,            \* per scraper object: threads that ran scrape_url on it
  bpc,              \* position of each thread in the browser strategy
  pw_count,         \* playwright_count modulo RecycleEvery
  served            \* per thread: fetches its live browser has served

ovars == <<project_urls, records, status, paused, total_urls, processed_urls,
           emails_found, progress, jobs, enqueued, mpc, offset,
           already_scraped, use_playwright, queue, wpc, wurl, wemails,
           wlinks, wread, scraper_pool, browser_open, outcome,
           fetches, inflight, everPaused, exit_path, loopSawPause, batches>>

fvars == <<now, last_request, rl_lock, proxies_list, use_proxies, max_retries,
           proxy_failures, fphase, playwright_count, calls, fpc, furl,
           is_homepage, retries, attempt, proxy, requests_result, response,
           browser_result, needs_playwright, wake, returned, http_status,
           working_proxies, last_attempt,
           too_close>>

pvars == <<max_internal_links, url_exclusion_patterns, email_filters, hpc,
           page_links, links_to_scrape, link_idx, checked_links, all_emails,
           social_links, emails_list, int_emails, filter_query_raises>>

xvars == <<xpc, in_email, out_valid, in_text, intended, out_emails, in_soup,
           out_social, taken_from, in_anchors, has_main, out_links,
                 in_url, out_url, out_key>>

bvars == <<alive, started, ident, instance_pool, created, scraper,
           storage_playwright, storage_browser, users, bpc, pw_count,
           served>>

vars == <<ovars, fvars, pvars, xvars, bvars>>

(***************************************************************************)
(* URLs.  A URL is the sequence of its pieces: "/" is one piece, a scheme  *)
(* with its colon ("http:", "https:") is one piece, a host is one piece.   *)
(* "http://a.com/" is <<"http:", "/", "/", "a.com", "/">>.                 *)
(***************************************************************************)
Scheme == <<"https:", "/", "/">>

HasScheme(url) ==
  /\ Len(url) >= 3
  /\ url[1] \in {"http:", "https:"}
  /\ url[2] = "/"
  /\ url[3] = "/"

RECURSIVE RStripSlash(_)
RStripSlash(url) ==
  IF url # <<>> /\ url[Len(url)] = "/"
    THEN RStripSlash(SubSeq(url, 1, Len(url) - 1))
    ELSE url

normalize_url(url) ==
  RStripSlash(IF HasScheme(url) THEN url ELSE Scheme \o url)

\* The lines a user can upload.
RawUrls ==
  { <<"a.com">>, <<"a.com", "/">>, <<"b.com">>,
    <<"http:", "/", "/">>, <<"http:">> }

RECURSIVE SeqsUpTo(_, _)
SeqsUpTo(S, n) ==
  IF n = 0 THEN { <<>> }
  ELSE LET shorter == SeqsUpTo(S, n - 1)
       IN  shorter \cup { Append(s, x) : s \in shorter, x \in S }

Range(s) == { s[i] : i \in 1..Len(s) }

\* create_project: normalize every line, keep the first of equal ones.
RECURSIVE DedupNormalized(_, _)
DedupNormalized(urls, acc) ==
  IF urls = <<>> THEN acc
  ELSE LET normalized == normalize_url(Head(urls))
       IN  DedupNormalized(Tail(urls),
             IF normalized \in Range(acc) THEN acc ELSE Append(acc, normalized))

create_project(urls) == DedupNormalized(urls, <<>>)

Uploads == SeqsUpTo(RawUrls, MaxUpload) \ { <<>> }

(***************************************************************************)
(* Helpers over the stored rows                                            *)
(***************************************************************************)
\* An executor with one thread more than settings.max_threads.
Workers_OneMore == 1..(MaxThreads + 1)

\* The threads of ThreadPoolExecutor(max_workers=settings.max_threads).
Workers == 1..MaxThreads
MainThread == 0
Threads == Workers \cup {MainThread}

UrlIds == 1..Len(project_urls)

Homepage(i) == normalize_url(project_urls[i])

RecordsOf(h) == SelectSeq(records, LAMBDA r : r.homepage_url = h)

RECURSIVE SumEmails(_)
SumEmails(rs) ==
  IF rs = <<>> THEN 0 ELSE Head(rs).unique_emails_found + SumEmails(Tail(rs))

Min(a, b) == IF a < b THEN a ELSE b

Max(a, b) == IF a > b THEN a ELSE b

(***************************************************************************)
(* scrape_with_fallback as the orchestrator sees it: what one call can     *)
(* return and whether it went through the browser strategy.  SpecFetch     *)
(* below models the call statement by statement.                           *)
(***************************************************************************)
ScrapeResult(st, br, em) == [status |-> st, browser |-> br, emails |-> em]

\* is_homepage=True: a direct success with emails returns at once; a direct
\* success without emails, or no direct success, goes to the browser when
\* use_playwright.
HomepageResults(up) ==
  { ScrapeResult("success", FALSE, 1) } \cup
  IF up
    THEN { ScrapeResult("success", TRUE, e) : e \in 0..1 } \cup
         { ScrapeResult("error", TRUE, 0) }
    ELSE { ScrapeResult("success", FALSE, 0), ScrapeResult("error", FALSE, 0) }

\* is_homepage=False: any direct success returns at once.
InternalResults(up) ==
  { ScrapeResult("success", FALSE, e) : e \in 0..1 } \cup
  IF up
    THEN { ScrapeResult("success", TRUE, e) : e \in 0..1 } \cup
         { ScrapeResult("error", TRUE, 0) }
    ELSE { ScrapeResult("error", FALSE, 0) }

\* scrape_url_playwright on thread t: get_selenium_scraper registers the
\* thread in _scraper_pool; _ensure_browser launches a browser in the
\* thread's own _browser_storage unless it already has one.  A failed
\* fetch may have failed before or after the launch.
BrowserAfter(t, res) ==
  IF ~res.browser THEN { browser_open }
  ELSE IF res.status = "success"
    THEN { [browser_open EXCEPT ![t] = TRUE] }
    ELSE { browser_open, [browser_open EXCEPT ![t] = TRUE] }

PoolAfter(t, res) ==
  IF res.browser THEN scraper_pool \cup {t} ELSE scraper_pool

\* SeleniumScraper.close run by thread t: it closes what the calling
\* thread's _browser_storage holds, whichever scraper object it is called on.
close(t, open) == [open EXCEPT ![t] = FALSE]

(***************************************************************************)
(* The fetch layer's universe: the rows whose URLs the workers fetch, the  *)
(* domains the rate limiter keys on, the proxy URLs a user can store.      *)
(***************************************************************************)
FetchUpload == << <<"a.com">>, <<"b.com">> >>

FetchRows == create_project(FetchUpload)

\* urlparse(url).netloc of a URL that has a scheme.
netloc(url) == url[4]

Domains == { netloc(u) : u \in Range(FetchRows) }

Proxies == { "p1", "p2" }

\* What scrape_with_fallback returns, as far as its callers read it.
Returns(st, method) == [status |-> st, scrape_method |-> method]

NoReturn == Returns("none", "none")

\* The values Settings.max_retries takes in SpecFetch, no retry at all and
\* the bound: update_settings stores int(data.get('max_retries', 3)) as
\* given.  An internal link is fetched with retries=1.
RetrySettings == {0, MaxRetries}

\* No call of scrape_with_fallback is in progress: the clock, the free
\* lock, the proxy pool not built yet, the workers' locals.
NoCalls ==
  /\ now = min_delay
  /\ rl_lock = 0
  /\ proxies_list = <<>>
  /\ proxy_failures = [p \in Proxies |-> 0]
  /\ fphase = "setup"
  /\ playwright_count = 0
  /\ calls = 0
  /\ fpc = [w \in Workers |-> "idle"]
  /\ furl = [w \in Workers |-> <<>>]
  /\ is_homepage = [w \in Workers |-> FALSE]
  /\ retries = [w \in Workers |-> 0]
  /\ attempt = [w \in Workers |-> 0]
  /\ proxy = [w \in Workers |-> "None"]
  /\ requests_result = [w \in Workers |-> FALSE]
  /\ response = [w \in Workers |-> 0]
  /\ browser_result = [w \in Workers |-> "none"]
  /\ needs_playwright = [w \in Workers |-> FALSE]
  /\ wake = [w \in Workers |-> 0]
  /\ returned = [w \in Workers |-> NoReturn]
  /\ http_status = [w \in Workers |-> 0]
  /\ working_proxies = <<>>
  /\ too_close = [d \in Domains |-> FALSE]

\* Before start_scraping has built the rate limiter and the proxy pool.
NoFetch ==
  /\ NoCalls
  /\ last_request = [d \in Domains |-> 0]
  /\ last_attempt = [d \in Domains |-> -1]

\* A text is the sequence of its characters; Chars spells a literal.
Chars(s) == SubSeq([i \in 1..Len(s) |-> SubSeq(s, i, i)], 1, Len(s))

(***************************************************************************)
(* The page layer's universe: the links a homepage document can hold, the  *)
(* email strings a page can hold, the social platforms.  An internal link  *)
(* is the sequence of its host and path pieces; an email string is the     *)
(* sequence of its characters.                                             *)
(***************************************************************************)
homepage_url == <<"a.com">>

Links ==
  { homepage_url, <<"a.com", "contact">>, <<"a.com", "about">>,
    <<"a.com", "blog">> }

Categories == {"contact", "footer", "header", "body"}

NoLinks == [c \in Categories |-> <<>>]

\* Patterns a user can store in Settings.url_exclusion_patterns.
Patterns == {"contact"}

\* Values of Settings.max_internal_links: update_settings stores int(...) of
\* what the form sends, without a range check.
LinkSettings == 0..MaxLinksSetting

Platforms == {"facebook", "twitter"}

NoSocial == [p \in Platforms |-> "None"]

\* What extract_social_links can return for a page: a profile link for one
\* platform at most.
Socials ==
  { social \in [Platforms -> {"None", "s1", "s2"}] :
      \A p, q \in Platforms :
        (social[p] # "None" /\ social[q] # "None") => p = q }

\* href values of mailto: links, after the "mailto:" prefix.
MailtoEmails ==
  { Chars("Info@A.com"), Chars("noreply@a.com") }

\* Passages of a page's text that hold an address.
TextEmails ==
  { Chars("u003cinfo@a.com"), Chars("Sales@a.com"), Chars("noreply@a.com") }

\* Patterns of the "contains" EmailFilter rows a user can store.
FilterPatterns == { Chars("sales") }

\* A fetched document as the extraction functions see it.
Documents ==
  { doc \in [mailto : SUBSET MailtoEmails, text : SUBSET TextEmails,
             social : Socials] :
      Cardinality(doc.mailto) + Cardinality(doc.text) <= MaxPageEmails }

\* No homepage is being processed; the settings are the column defaults.
NoPage ==
  /\ max_internal_links = 25
  /\ url_exclusion_patterns = {}
  /\ email_filters = {}
  /\ filter_query_raises = FALSE
  /\ hpc = "idle"
  /\ page_links = NoLinks
  /\ links_to_scrape = <<>>
  /\ link_idx = 0
  /\ checked_links = {}
  /\ all_emails = {}
  /\ social_links = NoSocial
  /\ emails_list = {}
  /\ int_emails = {}

\* No extraction function is being called on its own.
\* A link of a document: its href, its text, its class attribute and where
\* it stands: in a social, footer or navigation container, around an icon
\* that names a platform, or elsewhere.
NoLink == [href |-> <<>>, text |-> <<>>, class |-> <<>>, where |-> "plain"]

NoValidCall == in_email = <<>> /\ out_valid = "None"

NoTextCall == in_text = <<>> /\ intended = <<>> /\ out_emails = <<>>

NoSocialCall ==
  /\ in_soup = <<>>
  /\ out_social = [p \in Platforms |-> <<>>]
  /\ taken_from = [p \in Platforms |-> NoLink]

NoLinksCall ==
  /\ in_anchors = <<>>
  /\ has_main = FALSE
  /\ out_links = NoLinks

NoNormalizeCall == in_url = <<>> /\ out_url = <<>> /\ out_key = <<>>

NoExtract ==
  /\ xpc = "idle"
  /\ NoValidCall
  /\ NoTextCall
  /\ NoSocialCall
  /\ NoLinksCall
  /\ NoNormalizeCall

\* The worker threads followed in SpecBrowser, and the idents they get.
BThreads == 1..MaxThreadObjects
Idents == 1..MaxIdents

\* selenium_scraper.py as imported: an empty _scraper_pool, and no worker
\* thread yet.
NoBrowser ==
  /\ alive = {}
  /\ started = 0
  /\ ident = [t \in BThreads |-> 0]
  /\ instance_pool = [i \in Idents |-> 0]
  /\ created = 0
  /\ scraper = [t \in BThreads |-> 0]
  /\ storage_playwright = [t \in BThreads \cup {MainThread} |-> FALSE]
  /\ storage_browser = [t \in BThreads \cup {MainThread} |-> FALSE]
  /\ users = [i \in 1..MaxInstances |-> {}]
  /\ bpc = [t \in BThreads |-> "none"]
  /\ pw_count = 0
  /\ served = [t \in BThreads |-> 0]

(***************************************************************************)
(* Initial state: create_project has stored the deduplicated URLs and      *)
(* either enqueued the first job (status queued) or, with the queue down,  *)
(* left the project pending and paused.                                    *)
(***************************************************************************)
NoRun ==
  /\ mpc = "idle"
  /\ offset = 0
  /\ already_scraped = {}
  /\ queue = <<>>
  /\ wpc = [w \in Workers |-> "idle"]
  /\ wurl = [w \in Workers |-> 0]
  /\ wemails = [w \in Workers |-> 0]
  /\ wlinks = [w \in Workers |-> 0]
  /\ wread = [w \in Workers |-> <<0, 0>>]
  /\ scraper_pool = {}
  /\ browser_open = [t \in Threads |-> FALSE]
  /\ exit_path = "none"
  /\ everPaused = FALSE
  /\ loopSawPause = FALSE
  /\ batches = 0

Init ==
  /\ project_urls \in { create_project(u) : u \in Uploads }
  /\ records = <<>>
  /\ total_urls = Len(project_urls)
  /\ processed_urls = 0
  /\ emails_found = 0
  /\ progress = 0
  /\ \/ status = "queued" /\ paused = FALSE /\ jobs = 1 /\ enqueued = 1
     \/ status = "pending" /\ paused = TRUE /\ jobs = 0 /\ enqueued = 0
  /\ use_playwright \in BOOLEAN
  /\ outcome = [i \in UrlIds |-> "none"]
  /\ fetches = [i \in UrlIds |-> 0]
  /\ inflight = [i \in UrlIds |-> FALSE]
  /\ NoRun
  /\ use_proxies = FALSE
  /\ max_retries = MaxRetries
  /\ NoFetch
  /\ NoPage
  /\ NoExtract
  /\ NoBrowser

(***************************************************************************)
(* Routes that touch the project while the engine runs                     *)
(***************************************************************************)
projectVars == <<project_urls, records, total_urls, processed_urls,
                 emails_found, progress>>
mainVars == <<mpc, offset, already_scraped, use_playwright>>
poolVars == <<queue, wpc, wurl, wemails, wlinks, wread>>
browserVars == <<scraper_pool, browser_open>>
runObs == <<outcome, fetches, exit_path, loopSawPause, batches>>

\* Tasks that are past their pause check at this moment.
Running == { wurl[w] : w \in { v \in Workers : wpc[v] # "idle" } }

\* Bookkeeping of a write of paused = True.
ObservePause ==
  /\ everPaused' = TRUE
  /\ inflight' = [i \in UrlIds |-> inflight[i] \/ (~paused /\ i \in Running)]

\* pause_project, admin_pause_project, recover_all_stuck, recover_stuck_projects
pause_project ==
  /\ paused' = TRUE
  /\ ObservePause
  /\ UNCHANGED <<status, jobs, enqueued, projectVars, mainVars, poolVars,
                 browserVars, runObs>>

\* admin_resume_project
admin_resume_project ==
  /\ paused
  /\ paused' = FALSE
  /\ UNCHANGED <<status, jobs, enqueued, projectVars, mainVars, poolVars,
                 browserVars, runObs, inflight, everPaused>>

\* health.py recovery: every running project is paused and marked paused.
recover_system ==
  /\ status = "running"
  /\ paused' = TRUE
  /\ status' = "paused"
  /\ ObservePause
  /\ UNCHANGED <<jobs, enqueued, projectVars, mainVars, poolVars,
                 browserVars, runObs>>

\* resume_project
resume_project ==
  /\ status # "completed"
  /\ ~(status \in {"running", "queued"} /\ ~paused)
  /\ \E redis_healthy \in BOOLEAN, celery_ok \in BOOLEAN :
       IF ~redis_healthy
         THEN /\ status' = "pending"
              /\ paused' = TRUE
              /\ ObservePause
              /\ UNCHANGED <<jobs, enqueued>>
         ELSE /\ paused' = FALSE
              /\ UNCHANGED <<inflight, everPaused>>
              /\ IF status \in {"pending", "paused"}
                   THEN /\ enqueued < MaxJobs
                        /\ jobs' = jobs + 1
                        /\ enqueued' = enqueued + 1
                        /\ status' = IF celery_ok THEN "queued" ELSE "running"
                   ELSE UNCHANGED <<status, jobs, enqueued>>
  /\ UNCHANGED <<projectVars, mainVars, poolVars, browserVars, runObs>>

(***************************************************************************)
(* start_scraping: the orchestrating thread                                *)
(***************************************************************************)
routeVars == <<paused, jobs, enqueued>>
mainState == <<mpc, offset, already_scraped, use_playwright>>

\* scrape_project_job picked up by a Celery worker; start_scraping marks the
\* project running.  The ThreadPoolExecutor of a run has fresh threads, with
\* fresh thread-local storage: what the threads of the previous run left
\* open is out of reach of this run.
StartRun ==
  /\ mpc \in {"idle", "done"}
  /\ jobs > 0
  /\ jobs' = jobs - 1
  /\ status' = "running"
  /\ mpc' = "internet"
  /\ offset' = 0
  /\ already_scraped' = {}
  /\ browser_open' = [t \in Threads |-> IF t \in Workers THEN FALSE
                                         ELSE browser_open[t]]
  /\ outcome' = [i \in UrlIds |-> "none"]
  /\ fetches' = [i \in UrlIds |-> 0]
  /\ inflight' = [i \in UrlIds |-> FALSE]
  /\ everPaused' = paused
  /\ exit_path' = "none"
  /\ loopSawPause' = FALSE
  /\ batches' = 0
  /\ UNCHANGED <<paused, enqueued, projectVars, use_playwright, poolVars,
                 scraper_pool>>

\* wait_for_internet(max_wait=300): no connectivity ends the run in error.
WaitInternet ==
  /\ mpc = "internet"
  /\ \E ok \in BOOLEAN :
       IF ok
         THEN /\ mpc' = "setup"
              /\ UNCHANGED <<status, exit_path>>
         ELSE /\ status' = "error"
              /\ exit_path' = "no_internet"
              /\ mpc' = "cleanup"
  /\ UNCHANGED <<routeVars, projectVars, offset, already_scraped,
                 use_playwright, poolVars, browserVars, outcome, fetches,
                 inflight, everPaused, loopSawPause, batches>>

\* Settings, total_urls, proxy setup, already_scraped; any of the queries
\* can raise, which lands in the except clause.
Setup ==
  /\ mpc = "setup"
  /\ \E raised \in BOOLEAN :
       IF raised
         THEN /\ mpc' = "except"
              /\ UNCHANGED <<total_urls, already_scraped>>
         ELSE /\ total_urls' = Len(project_urls)
              /\ already_scraped' =
                   { normalize_url(records[k].homepage_url) :
                       k \in 1..Len(records) }
              /\ mpc' = "loop"
  /\ UNCHANGED <<routeVars, status, project_urls, records, processed_urls,
                 emails_found, progress, offset, use_playwright, poolVars,
                 browserVars, runObs, inflight, everPaused>>

\* Top of the batch loop: the pause check.
LoopCheckPause ==
  /\ mpc = "loop"
  /\ IF paused
       THEN /\ loopSawPause' = TRUE
            /\ mpc' = "final"
       ELSE /\ mpc' = "query"
            /\ UNCHANGED loopSawPause
  /\ UNCHANGED <<routeVars, status, projectVars, offset, already_scraped,
                 use_playwright, poolVars, browserVars, outcome, fetches,
                 exit_path, batches, inflight, everPaused>>

BatchAt(off) == [k \in 1..(Min(off + BatchSize, Len(project_urls)) - off)
                   |-> off + k]

\* The batch query and executor.submit for every row of the batch.
SubmitBatch ==
  /\ mpc = "query"
  /\ \E raised \in BOOLEAN :
       IF raised
         THEN /\ mpc' = "except"
              /\ UNCHANGED <<queue, batches>>
         ELSE IF offset >= Len(project_urls)
           THEN /\ mpc' = "final"
                /\ UNCHANGED <<queue, batches>>
           ELSE /\ queue' = queue \o BatchAt(offset)
                /\ batches' = batches + 1
                /\ mpc' = "wait"
  /\ UNCHANGED <<routeVars, status, projectVars, offset, already_scraped,
                 use_playwright, wpc, wurl, wemails, wlinks, wread,
                 browserVars, outcome, fetches, exit_path, loopSawPause,
                 inflight, everPaused>>

\* A batch loop that queries the same offset again.
WaitBatch_KeepsOffset ==
  /\ mpc = "wait"
  /\ queue = <<>>
  /\ \A w \in Workers : wpc[w] = "idle"
  /\ offset' = offset
  /\ mpc' = "loop"
  /\ UNCHANGED <<routeVars, status, projectVars, already_scraped,
                 use_playwright, poolVars, browserVars, runObs, inflight,
                 everPaused>>

\* as_completed over the batch, then offset += batch_size.
WaitBatch ==
  /\ mpc = "wait"
  /\ queue = <<>>
  /\ \A w \in Workers : wpc[w] = "idle"
  /\ offset' = offset + BatchSize
  /\ mpc' = "loop"
  /\ UNCHANGED <<routeVars, status, projectVars, already_scraped,
                 use_playwright, poolVars, browserVars, runObs, inflight,
                 everPaused>>

Percent(done, total) == IF total > 0 THEN (done * 100) \div total ELSE 0

\* Complete marking the run completed whenever the batches are exhausted,
\* without comparing the record count with the total.
Complete_NoCountCheck ==
  /\ mpc = "final"
  /\ IF ~paused
       THEN /\ processed_urls' = Len(records)
            /\ status' = "completed"
            /\ progress' = 100
            /\ exit_path' = "final"
       ELSE /\ exit_path' = "final_paused"
            /\ UNCHANGED <<status, processed_urls, progress>>
  /\ mpc' = "cleanup"
  /\ UNCHANGED <<routeVars, project_urls, records, total_urls, emails_found,
                 offset, already_scraped, use_playwright, poolVars,
                 browserVars, outcome, fetches, loopSawPause, batches,
                 inflight, everPaused>>

\* After the loop: the final status, only when the pause flag is clear.
Complete ==
  /\ mpc = "final"
  /\ IF ~paused
       THEN LET actual_processed == Len(records)
                actual_total == IF total_urls # 0 THEN total_urls
                                ELSE Len(project_urls)
            IN  /\ processed_urls' = actual_processed
                /\ IF actual_processed >= actual_total
                     THEN /\ status' = "completed"
                          /\ progress' = 100
                     ELSE /\ status' = "error"
                          /\ progress' = Percent(actual_processed, actual_total)
                /\ exit_path' = "final"
       ELSE /\ exit_path' = "final_paused"
            /\ UNCHANGED <<status, processed_urls, progress>>
  /\ mpc' = "cleanup"
  /\ UNCHANGED <<routeVars, project_urls, records, total_urls, emails_found,
                 offset, already_scraped, use_playwright, poolVars,
                 browserVars, outcome, fetches, loopSawPause, batches,
                 inflight, everPaused>>

\* except Exception: the run is marked error, unless the handler's own
\* query or commit raises, which its inner except clause passes over.
HandleCritical ==
  /\ mpc = "except"
  /\ \E written \in BOOLEAN :
       IF written THEN status' = "error" ELSE UNCHANGED status
  /\ exit_path' = "exception"
  /\ mpc' = "cleanup"
  /\ UNCHANGED <<routeVars, projectVars, offset, already_scraped,
                 use_playwright, poolVars, browserVars, outcome, fetches,
                 loopSawPause, batches, inflight, everPaused>>

\* cleanup_all_selenium called on thread t: close() once per pooled scraper,
\* each time on the caller's own _browser_storage; then the pool is cleared.
cleanup_all_selenium(t) ==
  /\ browser_open' = IF scraper_pool = {} THEN browser_open
                     ELSE close(t, browser_open)
  /\ scraper_pool' = {}

\* finally: the browser cleanup, run by the orchestrating thread.
Cleanup ==
  /\ mpc = "cleanup"
  /\ cleanup_all_selenium(MainThread)
  /\ mpc' = "done"
  /\ UNCHANGED <<routeVars, status, projectVars, offset, already_scraped,
                 use_playwright, poolVars, runObs, inflight, everPaused>>

(***************************************************************************)
(* process_homepage, run by the worker threads of the executor             *)
(***************************************************************************)
\* TaskBegin without the pause check of process_homepage.
TaskBegin_NoPauseCheck(w) ==
  /\ wpc[w] = "idle"
  /\ \A v \in Workers : v < w => wpc[v] # "idle"
  /\ queue # <<>>
  /\ LET i == Head(queue)
     IN  /\ queue' = Tail(queue)
         /\ IF Homepage(i) \in already_scraped
              THEN /\ outcome' = [outcome EXCEPT ![i] = "skipped"]
                   /\ UNCHANGED <<wpc, wurl>>
              ELSE /\ wpc' = [wpc EXCEPT ![w] = "fetch"]
                   /\ wurl' = [wurl EXCEPT ![w] = i]
                   /\ UNCHANGED outcome
  /\ UNCHANGED <<routeVars, status, projectVars, mainState, wemails, wlinks,
                 wread, browserVars, fetches, exit_path, loopSawPause,
                 batches, inflight, everPaused>>

\* TaskBegin without the skip of homepages that already have a record.
TaskBegin_NoResumeSkip(w) ==
  /\ wpc[w] = "idle"
  /\ \A v \in Workers : v < w => wpc[v] # "idle"
  /\ queue # <<>>
  /\ LET i == Head(queue)
     IN  /\ queue' = Tail(queue)
         /\ IF paused
              THEN /\ outcome' = [outcome EXCEPT ![i] = "paused"]
                   /\ UNCHANGED <<wpc, wurl>>
              ELSE /\ wpc' = [wpc EXCEPT ![w] = "fetch"]
                   /\ wurl' = [wurl EXCEPT ![w] = i]
                   /\ UNCHANGED outcome
  /\ UNCHANGED <<routeVars, status, projectVars, mainState, wemails, wlinks,
                 wread, browserVars, fetches, exit_path, loopSawPause,
                 batches, inflight, everPaused>>

\* A free worker takes the next submitted task (the executor's threads are
\* interchangeable: the free one of lowest index); the task checks the pause
\* flag, then the resume skip, before any fetch.
TaskBegin(w) ==
  /\ wpc[w] = "idle"
  /\ \A v \in Workers : v < w => wpc[v] # "idle"
  /\ queue # <<>>
  /\ LET i == Head(queue)
     IN  /\ queue' = Tail(queue)
         /\ IF paused
              THEN /\ outcome' = [outcome EXCEPT ![i] = "paused"]
                   /\ UNCHANGED <<wpc, wurl>>
              ELSE IF Homepage(i) \in already_scraped
                THEN /\ outcome' = [outcome EXCEPT ![i] = "skipped"]
                     /\ UNCHANGED <<wpc, wurl>>
                ELSE /\ wpc' = [wpc EXCEPT ![w] = "fetch"]
                     /\ wurl' = [wurl EXCEPT ![w] = i]
                     /\ UNCHANGED outcome
  /\ UNCHANGED <<routeVars, status, projectVars, mainState, wemails, wlinks,
                 wread, browserVars, fetches, exit_path, loopSawPause,
                 batches, inflight, everPaused>>

\* scrape_with_fallback(homepage_url, is_homepage=True); on success the
\* page is processed and the crawl set computed (at most max_internal_links).
ScrapeHomepage(w) ==
  /\ wpc[w] = "fetch"
  /\ \E res \in HomepageResults(use_playwright) :
       /\ fetches' = [fetches EXCEPT ![wurl[w]] = @ + 1]
       /\ scraper_pool' = PoolAfter(w, res)
       /\ browser_open' \in BrowserAfter(w, res)
       /\ IF res.status # "success"
            THEN /\ outcome' = [outcome EXCEPT ![wurl[w]] = "fetch_failed"]
                 /\ wpc' = [wpc EXCEPT ![w] = "idle"]
                 /\ UNCHANGED <<wemails, wlinks>>
            ELSE /\ \E n \in 0..MaxInternal :
                      wlinks' = [wlinks EXCEPT ![w] = n]
                 /\ wemails' = [wemails EXCEPT ![w] = res.emails]
                 /\ wpc' = [wpc EXCEPT ![w] = "crawl"]
                 /\ UNCHANGED outcome
  /\ UNCHANGED <<routeVars, status, projectVars, mainState, queue, wurl,
                 wread, exit_path, loopSawPause, batches, inflight,
                 everPaused>>

\* One internal link: scrape_with_fallback(internal_url, retries=1) and the
\* merge of its emails into the aggregate.
CrawlInternal(w) ==
  /\ wpc[w] = "crawl"
  /\ wlinks[w] > 0
  /\ \E res \in InternalResults(use_playwright) :
       /\ scraper_pool' = PoolAfter(w, res)
       /\ browser_open' \in BrowserAfter(w, res)
       /\ wemails' = [wemails EXCEPT ![w] =
                        IF res.status = "success" /\ res.emails > @
                          THEN res.emails ELSE @]
  /\ wlinks' = [wlinks EXCEPT ![w] = @ - 1]
  /\ UNCHANGED <<routeVars, status, projectVars, mainState, queue, wpc, wurl,
                 wread, runObs, inflight, everPaused>>

\* Persist with a pause check in front of it: a paused task drops its
\* aggregate instead of storing it.
Persist_AbortsOnPause(w) ==
  /\ wpc[w] = "crawl"
  /\ wlinks[w] = 0
  /\ IF paused
       THEN /\ outcome' = [outcome EXCEPT ![wurl[w]] = "paused"]
            /\ wpc' = [wpc EXCEPT ![w] = "idle"]
            /\ UNCHANGED records
       ELSE /\ records' = Append(records,
                 [homepage_url |-> Homepage(wurl[w]),
                  unique_emails_found |-> wemails[w]])
            /\ outcome' = [outcome EXCEPT ![wurl[w]] = "persisted"]
            /\ wpc' = [wpc EXCEPT ![w] = "progress"]
  /\ UNCHANGED <<routeVars, status, project_urls, total_urls, processed_urls,
                 emails_found, progress, mainState, queue, wurl, wemails,
                 wlinks, wread, browserVars, fetches, exit_path,
                 loopSawPause, batches, inflight, everPaused>>

\* Persist whose except clause marks the run as failed.
Persist_RaiseSetsStatus(w) ==
  /\ wpc[w] = "crawl"
  /\ wlinks[w] = 0
  /\ \E raised \in BOOLEAN :
       IF raised
         THEN /\ outcome' = [outcome EXCEPT ![wurl[w]] = "raised"]
              /\ wpc' = [wpc EXCEPT ![w] = "idle"]
              /\ status' = "error"
              /\ UNCHANGED records
         ELSE /\ records' = Append(records,
                   [homepage_url |-> Homepage(wurl[w]),
                    unique_emails_found |-> wemails[w]])
              /\ outcome' = [outcome EXCEPT ![wurl[w]] = "persisted"]
              /\ wpc' = [wpc EXCEPT ![w] = "progress"]
              /\ UNCHANGED status
  /\ UNCHANGED <<routeVars, project_urls, total_urls, processed_urls,
                 emails_found, progress, mainState, queue, wurl, wemails,
                 wlinks, wread, browserVars, fetches, exit_path,
                 loopSawPause, batches, inflight, everPaused>>

\* db.session.add(scraped_data); db.session.commit().  A storage error is
\* caught by the task's except clause: rollback, no record, task over.
Persist(w) ==
  /\ wpc[w] = "crawl"
  /\ wlinks[w] = 0
  /\ \E raised \in BOOLEAN :
       IF raised
         THEN /\ outcome' = [outcome EXCEPT ![wurl[w]] = "raised"]
              /\ wpc' = [wpc EXCEPT ![w] = "idle"]
              /\ UNCHANGED records
         ELSE /\ records' = Append(records,
                   [homepage_url |-> Homepage(wurl[w]),
                    unique_emails_found |-> wemails[w]])
              /\ outcome' = [outcome EXCEPT ![wurl[w]] = "persisted"]
              /\ wpc' = [wpc EXCEPT ![w] = "progress"]
  /\ UNCHANGED <<routeVars, status, project_urls, total_urls, processed_urls,
                 emails_found, progress, mainState, queue, wurl, wemails,
                 wlinks, wread, browserVars, fetches, exit_path,
                 loopSawPause, batches, inflight, everPaused>>

\* The two progress queries: count of records and sum of their emails.
ReadProgress(w) ==
  /\ wpc[w] = "progress"
  /\ wread' = [wread EXCEPT ![w] = <<Len(records), SumEmails(records)>>]
  /\ wpc' = [wpc EXCEPT ![w] = "commit"]
  /\ UNCHANGED <<routeVars, status, projectVars, mainState, queue, wurl,
                 wemails, wlinks, browserVars, runObs, inflight, everPaused>>

\* The commit of processed_urls, emails_found and progress.
CommitProgress(w) ==
  /\ wpc[w] = "commit"
  /\ processed_urls' = wread[w][1]
  /\ emails_found' = wread[w][2]
  /\ progress' = Percent(wread[w][1], total_urls)
  /\ wpc' = [wpc EXCEPT ![w] = "idle"]
  /\ wread' = [wread EXCEPT ![w] = <<0, 0>>]
  /\ UNCHANGED <<routeVars, status, project_urls, records, total_urls,
                 mainState, queue, wurl, wemails, wlinks, browserVars,
                 runObs, inflight, everPaused>>

Next ==
  \/ pause_project /\ UNCHANGED <<fvars, pvars, xvars, bvars>>
  \/ admin_resume_project /\ UNCHANGED <<fvars, pvars, xvars, bvars>>
  \/ recover_system /\ UNCHANGED <<fvars, pvars, xvars, bvars>>
  \/ resume_project /\ UNCHANGED <<fvars, pvars, xvars, bvars>>
  \/ StartRun /\ UNCHANGED <<fvars, pvars, xvars, bvars>>
  \/ WaitInternet /\ UNCHANGED <<fvars, pvars, xvars, bvars>>
  \/ Setup /\ UNCHANGED <<fvars, pvars, xvars, bvars>>
  \/ LoopCheckPause /\ UNCHANGED <<fvars, pvars, xvars, bvars>>
  \/ SubmitBatch /\ UNCHANGED <<fvars, pvars, xvars, bvars>>
  \/ WaitBatch /\ UNCHANGED <<fvars, pvars, xvars, bvars>>
  \/ Complete /\ UNCHANGED <<fvars, pvars, xvars, bvars>>
  \/ HandleCritical /\ UNCHANGED <<fvars, pvars, xvars, bvars>>
  \/ Cleanup /\ UNCHANGED <<fvars, pvars, xvars, bvars>>
  \/ \E w \in Workers : TaskBegin(w) /\ UNCHANGED <<fvars, pvars, xvars, bvars>>
  \/ \E w \in Workers : ScrapeHomepage(w) /\ UNCHANGED <<fvars, pvars, xvars, bvars>>
  \/ \E w \in Workers : CrawlInternal(w) /\ UNCHANGED <<fvars, pvars, xvars, bvars>>
  \/ \E w \in Workers : Persist(w) /\ UNCHANGED <<fvars, pvars, xvars, bvars>>
  \/ \E w \in Workers : ReadProgress(w) /\ UNCHANGED <<fvars, pvars, xvars, bvars>>
  \/ \E w \in Workers : CommitProgress(w) /\ UNCHANGED <<fvars, pvars, xvars, bvars>>

Spec == Init /\ [][Next]_vars

\* The steps of a run: the orchestrating thread and the worker threads of
\* its executor.
RunStep ==
  /\ \/ StartRun \/ WaitInternet \/ Setup \/ LoopCheckPause \/ SubmitBatch
     \/ WaitBatch \/ Complete \/ HandleCritical \/ Cleanup
     \/ \E w \in Workers :
          \/ TaskBegin(w) \/ ScrapeHomepage(w) \/ CrawlInternal(w)
          \/ Persist(w) \/ ReadProgress(w) \/ CommitProgress(w)
  /\ UNCHANGED <<fvars, pvars, xvars, bvars>>

\* A project of one homepage, and the engine with every call returning:
\* an enqueued job is picked up, and the threads of a run keep taking steps.
InitLive ==
  /\ Init
  /\ Len(project_urls) = 1

SpecLive == InitLive /\ [][Next]_vars /\ WF_vars(RunStep)

\* The project's owner pauses and resumes it through the project routes
\* while the engine runs; no admin or recovery route is called.
NextResume ==
  \/ pause_project /\ UNCHANGED <<fvars, pvars, xvars, bvars>>
  \/ resume_project /\ UNCHANGED <<fvars, pvars, xvars, bvars>>
  \/ StartRun /\ UNCHANGED <<fvars, pvars, xvars, bvars>>
  \/ WaitInternet /\ UNCHANGED <<fvars, pvars, xvars, bvars>>
  \/ Setup /\ UNCHANGED <<fvars, pvars, xvars, bvars>>
  \/ LoopCheckPause /\ UNCHANGED <<fvars, pvars, xvars, bvars>>
  \/ SubmitBatch /\ UNCHANGED <<fvars, pvars, xvars, bvars>>
  \/ WaitBatch /\ UNCHANGED <<fvars, pvars, xvars, bvars>>
  \/ Complete /\ UNCHANGED <<fvars, pvars, xvars, bvars>>
  \/ HandleCritical /\ UNCHANGED <<fvars, pvars, xvars, bvars>>
  \/ Cleanup /\ UNCHANGED <<fvars, pvars, xvars, bvars>>
  \/ \E w \in Workers : TaskBegin(w) /\ UNCHANGED <<fvars, pvars, xvars, bvars>>
  \/ \E w \in Workers : ScrapeHomepage(w) /\ UNCHANGED <<fvars, pvars, xvars, bvars>>
  \/ \E w \in Workers : CrawlInternal(w) /\ UNCHANGED <<fvars, pvars, xvars, bvars>>
  \/ \E w \in Workers : Persist(w) /\ UNCHANGED <<fvars, pvars, xvars, bvars>>
  \/ \E w \in Workers : ReadProgress(w) /\ UNCHANGED <<fvars, pvars, xvars, bvars>>
  \/ \E w \in Workers : CommitProgress(w) /\ UNCHANGED <<fvars, pvars, xvars, bvars>>

SpecResume == InitLive /\ [][NextResume]_vars /\ WF_vars(RunStep)

(***************************************************************************)
(* SpecPool: the executor and one batch.  The batch loop has submitted a   *)
(* batch of PoolBatch rows, more than the pool has threads, and waits in   *)
(* as_completed; the workers run the tasks.                                *)
(***************************************************************************)
PoolHosts == <<"a.com", "b.com", "c.com", "d.com", "e.com">>

\* The stored rows: distinct normalized homepages.
PoolRows == [k \in 1..PoolBatch |-> Scheme \o <<PoolHosts[k]>>]

InitPool ==
  /\ project_urls = PoolRows
  /\ records = <<>>
  /\ status = "running"
  /\ paused = FALSE
  /\ total_urls = Len(PoolRows)
  /\ processed_urls = 0
  /\ emails_found = 0
  /\ progress = 0
  /\ jobs = 0
  /\ enqueued = 1
  /\ mpc = "wait"
  /\ offset = 0
  /\ already_scraped = {}
  /\ use_playwright \in BOOLEAN
  /\ queue = [k \in 1..PoolBatch |-> k]
  /\ wpc = [w \in Workers |-> "idle"]
  /\ wurl = [w \in Workers |-> 0]
  /\ wemails = [w \in Workers |-> 0]
  /\ wlinks = [w \in Workers |-> 0]
  /\ wread = [w \in Workers |-> <<0, 0>>]
  /\ scraper_pool = {}
  /\ browser_open = [t \in Threads |-> FALSE]
  /\ outcome = [i \in 1..PoolBatch |-> "none"]
  /\ fetches = [i \in 1..PoolBatch |-> 0]
  /\ inflight = [i \in 1..PoolBatch |-> FALSE]
  /\ exit_path = "none"
  /\ everPaused = FALSE
  /\ loopSawPause = FALSE
  /\ batches = 1
  /\ use_proxies = FALSE
  /\ max_retries = MaxRetries
  /\ NoFetch
  /\ NoPage
  /\ NoExtract
  /\ NoBrowser

NextPool ==
  \/ \E w \in Workers : TaskBegin(w) /\ UNCHANGED <<fvars, pvars, xvars, bvars>>
  \/ \E w \in Workers : ScrapeHomepage(w) /\ UNCHANGED <<fvars, pvars, xvars, bvars>>
  \/ \E w \in Workers : CrawlInternal(w) /\ UNCHANGED <<fvars, pvars, xvars, bvars>>
  \/ \E w \in Workers : Persist(w) /\ UNCHANGED <<fvars, pvars, xvars, bvars>>
  \/ \E w \in Workers : ReadProgress(w) /\ UNCHANGED <<fvars, pvars, xvars, bvars>>
  \/ \E w \in Workers : CommitProgress(w) /\ UNCHANGED <<fvars, pvars, xvars, bvars>>

SpecPool == InitPool /\ [][NextPool]_vars

(***************************************************************************)
(* SpecFetch: scrape_with_fallback statement by statement.  The            *)
(* orchestrator is held at a moment of a run at which the workers are      *)
(* inside process_homepage; which row a worker is on is not followed: a    *)
(* call takes the URL of any row, as the homepage itself or as one of its  *)
(* internal links.                                                         *)
(***************************************************************************)
RunInProgress ==
  /\ project_urls = FetchRows
  /\ records = <<>>
  /\ status = "running"
  /\ paused = FALSE
  /\ total_urls = Len(FetchRows)
  /\ processed_urls = 0
  /\ emails_found = 0
  /\ progress = 0
  /\ jobs = 0
  /\ enqueued = 1
  /\ mpc = "wait"
  /\ offset = 0
  /\ already_scraped = {}
  /\ use_playwright \in BOOLEAN
  /\ LET busy == Min(MaxThreads, Len(FetchRows))
     IN  /\ queue = [k \in 1..(Len(FetchRows) - busy) |-> busy + k]
         /\ wpc = [w \in Workers |-> IF w <= busy THEN "fetch" ELSE "idle"]
         /\ wurl = [w \in Workers |-> IF w <= busy THEN w ELSE 0]
  /\ wemails = [w \in Workers |-> 0]
  /\ wlinks = [w \in Workers |-> 0]
  /\ wread = [w \in Workers |-> <<0, 0>>]
  /\ scraper_pool = {}
  /\ browser_open = [t \in Threads |-> FALSE]
  /\ outcome = [i \in 1..Len(FetchRows) |-> "none"]
  /\ fetches = [i \in 1..Len(FetchRows) |-> 0]
  /\ inflight = [i \in 1..Len(FetchRows) |-> FALSE]
  /\ exit_path = "none"
  /\ everPaused = FALSE
  /\ loopSawPause = FALSE
  /\ batches = 1

InitFetch ==
  /\ RunInProgress
  /\ use_proxies \in BOOLEAN
  /\ max_retries \in RetrySettings
  /\ NoFetch
  /\ NoPage
  /\ NoExtract
  /\ NoBrowser

\* s without its i-th element.
RemoveAt(s, i) == SubSeq(s, 1, i - 1) \o SubSeq(s, i + 1, Len(s))

\* Sequences of distinct elements of S: the orders in which some of S
\* can complete.
Orders(S) ==
  { o \in SeqsUpTo(S, Cardinality(S)) :
      \A i, j \in 1..Len(o) : i # j => o[i] # o[j] }

\* test_proxies_parallel(proxy_list): every entry is tested on its own, and
\* those that answered are appended in the order their tests completed.
test_proxies_parallel(proxy_list) ==
  { [k \in 1..Len(o) |-> proxy_list[o[k]]] : o \in Orders(1..Len(proxy_list)) }

\* The proxy setup that keeps every candidate, whatever its health test.
ProxySetup_KeepsUntested ==
  /\ fphase = "setup"
  /\ fphase' = "run"
  /\ IF use_proxies
       THEN \E all_proxies \in SeqsUpTo(Proxies, MaxProxyRows) :
              IF all_proxies # <<>>
                THEN \E tested \in test_proxies_parallel(all_proxies) :
                       /\ proxies_list' = all_proxies
                       /\ working_proxies' = tested
                       /\ UNCHANGED use_proxies
                ELSE UNCHANGED <<proxies_list, working_proxies, use_proxies>>
       ELSE UNCHANGED <<proxies_list, working_proxies, use_proxies>>
  /\ UNCHANGED <<now, last_request, rl_lock, proxy_failures, max_retries,
                 playwright_count, calls, fpc, furl, is_homepage, retries,
                 attempt, proxy, requests_result, response, browser_result,
                 needs_playwright, wake, returned, http_status, last_attempt,
                 too_close>>

\* Proxy setup of start_scraping.  all_proxies is the proxy_url of every
\* active Proxy row of the user; rows may repeat a proxy_url, since
\* add_proxy stores what it is given.
ProxySetup ==
  /\ fphase = "setup"
  /\ fphase' = "run"
  /\ IF use_proxies
       THEN \E all_proxies \in SeqsUpTo(Proxies, MaxProxyRows) :
              IF all_proxies # <<>>
                THEN \E tested \in test_proxies_parallel(all_proxies) :
                       /\ proxies_list' = tested
                       /\ working_proxies' = tested
                       /\ use_proxies' = (tested # <<>>)
                ELSE UNCHANGED <<proxies_list, working_proxies, use_proxies>>
       ELSE UNCHANGED <<proxies_list, working_proxies, use_proxies>>
  /\ UNCHANGED <<now, last_request, rl_lock, proxy_failures, max_retries,
                 playwright_count, calls, fpc, furl, is_homepage, retries,
                 attempt, proxy, requests_result, response, browser_result,
                 needs_playwright, wake, returned, http_status, last_attempt,
                 too_close>>

limiterVars == <<last_request, rl_lock>>
proxyVars == <<proxies_list, use_proxies, proxy_failures, working_proxies>>
callVars == <<furl, is_homepage, retries, attempt, proxy, requests_result,
              needs_playwright, wake>>
fetchObs == <<last_attempt, too_close>>
callObs == <<response, browser_result, returned, http_status>>

\* One second passes.
Tick ==
  /\ now < MaxTime
  /\ now' = now + 1
  /\ UNCHANGED <<limiterVars, proxyVars, max_retries, fphase, playwright_count, calls,
                 fpc, callVars, fetchObs, callObs>>

\* process_homepage calls scrape_with_fallback: for the homepage with
\* retries=settings.max_retries, for an internal link with retries=1.
Call(w) ==
  /\ fphase = "run"
  /\ fpc[w] = "idle"
  /\ calls < MaxCalls
  /\ calls' = calls + 1
  /\ \E url \in Range(FetchRows), home \in BOOLEAN :
       /\ furl' = [furl EXCEPT ![w] = url]
       /\ is_homepage' = [is_homepage EXCEPT ![w] = home]
       /\ retries' = [retries EXCEPT ![w] = IF home THEN max_retries ELSE 1]
  /\ fpc' = [fpc EXCEPT ![w] = "wait"]
  /\ returned' = [returned EXCEPT ![w] = NoReturn]
  /\ http_status' = [http_status EXCEPT ![w] = 0]
  /\ response' = [response EXCEPT ![w] = 0]
  /\ browser_result' = [browser_result EXCEPT ![w] = "none"]
  /\ UNCHANGED <<now, limiterVars, proxyVars, max_retries, fphase, playwright_count,
                 attempt, proxy, requests_result, needs_playwright, wake,
                 fetchObs>>

\* wait_for_domain up to the sleep: take the lock, read the clock, and
\* sleep for what is missing of min_delay.
wait_for_domain_enter(w) ==
  /\ fpc[w] = "wait"
  /\ rl_lock = 0
  /\ rl_lock' = w
  /\ LET domain == netloc(furl[w])
         elapsed == now - last_request[domain]
     IN  wake' = [wake EXCEPT ![w] = IF elapsed < min_delay
                                       THEN now + (min_delay - elapsed)
                                       ELSE now]
  /\ fpc' = [fpc EXCEPT ![w] = "limited"]
  /\ UNCHANGED <<now, last_request, proxyVars, max_retries, fphase, playwright_count,
                 calls, furl, is_homepage, retries, attempt, proxy,
                 requests_result, needs_playwright, fetchObs, callObs>>

\* wait_for_domain after the sleep: stamp the domain, release the lock;
\* then requests_result = None, needs_playwright = False and the loop.
wait_for_domain_leave(w) ==
  /\ fpc[w] = "limited"
  /\ now >= wake[w]
  /\ last_request' = [last_request EXCEPT ![netloc(furl[w])] = now]
  /\ rl_lock' = 0
  /\ attempt' = [attempt EXCEPT ![w] = 0]
  /\ requests_result' = [requests_result EXCEPT ![w] = FALSE]
  /\ needs_playwright' = [needs_playwright EXCEPT ![w] = FALSE]
  /\ fpc' = [fpc EXCEPT ![w] = IF retries[w] > 0 THEN "attempt" ELSE "fallback"]
  /\ wake' = [wake EXCEPT ![w] = 0]
  /\ UNCHANGED <<now, proxyVars, max_retries, fphase, playwright_count, calls, furl,
                 is_homepage, retries, proxy, fetchObs, callObs>>

\* get_proxy choosing among the proxies that passed the health test,
\* evicted or not.
get_proxy_FromTested ==
  IF ~use_proxies \/ working_proxies = <<>>
    THEN { "None" }
    ELSE Range(working_proxies)

\* What get_proxy can return.
get_proxy ==
  IF ~use_proxies \/ proxies_list = <<>>
    THEN { "None" }
    ELSE Range(proxies_list)

\* list.remove(x): the list without the first x.
remove(list, x) ==
  RemoveAt(list, CHOOSE i \in 1..Len(list) :
                   list[i] = x /\ \A j \in 1..(i - 1) : list[j] # x)

\* A request attempt on the domain of url starts now.
StartsAttempt(url) ==
  LET domain == netloc(url)
  IN  /\ last_attempt' = [last_attempt EXCEPT ![domain] = now]
      /\ too_close' = [too_close EXCEPT ![domain] =
                         @ \/ (last_attempt[domain] >= 0
                               /\ now - last_attempt[domain] < min_delay)]

\* The call returns value; its locals are gone (is_homepage is kept, to
\* tell what kind of call returned).
Return(w, value) ==
  /\ returned' = [returned EXCEPT ![w] = value]
  /\ fpc' = [fpc EXCEPT ![w] = "idle"]
  /\ furl' = [furl EXCEPT ![w] = <<>>]
  /\ UNCHANGED is_homepage
  /\ retries' = [retries EXCEPT ![w] = 0]
  /\ attempt' = [attempt EXCEPT ![w] = 0]
  /\ proxy' = [proxy EXCEPT ![w] = "None"]
  /\ requests_result' = [requests_result EXCEPT ![w] = FALSE]
  /\ needs_playwright' = [needs_playwright EXCEPT ![w] = FALSE]
  /\ wake' = [wake EXCEPT ![w] = 0]

\* record_proxy_failure with a pool that takes a proxy back in when it
\* fails again after its removal.
record_proxy_failure_Readmits(p) ==
  IF p = "None"
    THEN UNCHANGED <<proxy_failures, proxies_list>>
    ELSE /\ proxy_failures' = [proxy_failures EXCEPT ![p] = @ + 1]
         /\ proxies_list' =
              IF proxy_failures[p] + 1 >= fail_threshold
                THEN IF p \in Range(proxies_list)
                       THEN remove(proxies_list, p)
                       ELSE Append(proxies_list, p)
                ELSE proxies_list

\* record_proxy_failure(proxy), under proxy_lock.
record_proxy_failure(p) ==
  IF p = "None"
    THEN UNCHANGED <<proxy_failures, proxies_list>>
    ELSE /\ proxy_failures' = [proxy_failures EXCEPT ![p] = @ + 1]
         /\ proxies_list' =
              IF proxy_failures[p] + 1 >= fail_threshold
                 /\ p \in Range(proxies_list)
                THEN remove(proxies_list, p)
                ELSE proxies_list

\* What the server can answer to session.get: a page with emails or with
\* none, a 403, a 503, or nothing (timeout, connection error), written as
\* status_code -1.
Responses ==
  { [status_code |-> 200, emails |-> e] : e \in 0..1 }
    \cup { [status_code |-> c, emails |-> 0] : c \in {403, 503, -1} }

\* bool(response) of a requests.Response: its ok, status_code below 400.
ok(resp) == resp.status_code < 400

\* scrape_url_requests from the answer: raise_for_status raises HTTPError
\* for a status of 400 and above, and the handler reads the status only
\* `if e.response`.
scrape_url_requests(resp) ==
  IF resp.status_code = -1
    THEN [status |-> "error", http_status |-> -1, is_cloudflare |-> FALSE,
          emails |-> 0]
    ELSE IF resp.status_code >= 400
      THEN [status |-> "error",
            http_status |-> IF ok(resp) THEN resp.status_code ELSE 0,
            is_cloudflare |-> IF ok(resp) THEN resp.status_code \in {403, 503}
                                          ELSE FALSE,
            emails |-> 0]
      ELSE [status |-> "success", http_status |-> resp.status_code,
            is_cloudflare |-> FALSE, emails |-> resp.emails]

\* The opportunistic re-fetch applied to every page, internal ones too.
WantsBrowser_AnyPage(w, result) ==
  use_playwright /\ result.emails = 0

\* A successful direct result is not returned yet: a homepage on which
\* process_scraped_page found no email, with the browser fallback enabled.
WantsBrowser(w, result) ==
  is_homepage[w] /\ use_playwright /\ result.emails = 0

\* Top of the loop body: proxy = get_proxy() and the request goes out.
StartAttempt(w) ==
  /\ fpc[w] = "attempt"
  /\ \E p \in get_proxy : proxy' = [proxy EXCEPT ![w] = p]
  /\ StartsAttempt(furl[w])
  /\ fpc' = [fpc EXCEPT ![w] = "request"]
  /\ UNCHANGED <<now, limiterVars, proxyVars, max_retries, fphase, playwright_count,
                 calls, furl, is_homepage, retries, attempt,
                 requests_result, needs_playwright, wake, callObs>>

\* The rest of the loop body, from the result of scrape_url_requests.  The
\* proxy of the attempt is not read again once its failure is recorded.
FinishAttempt(w) ==
  /\ fpc[w] = "request"
  /\ \E resp \in Responses :
       LET result == scrape_url_requests(resp)
       IN
       /\ response' = [response EXCEPT ![w] = resp.status_code]
       /\ IF result.status = "success"
            THEN IF WantsBrowser(w, result)
                THEN /\ requests_result' = [requests_result EXCEPT ![w] = TRUE]
                     /\ needs_playwright' = [needs_playwright EXCEPT ![w] = TRUE]
                     /\ proxy' = [proxy EXCEPT ![w] = "None"]
                     /\ fpc' = [fpc EXCEPT ![w] = "fallback"]
                     /\ http_status' =
                          [http_status EXCEPT ![w] = result.http_status]
                     /\ UNCHANGED <<furl, is_homepage, retries, attempt,
                                    wake, proxy_failures, proxies_list,
                                    returned>>
                ELSE /\ Return(w, Returns("success", "requests"))
                     /\ http_status' =
                          [http_status EXCEPT ![w] = result.http_status]
                     /\ UNCHANGED <<proxy_failures, proxies_list>>
            ELSE IF result.is_cloudflare \/ result.http_status \in {403, 503}
              THEN /\ needs_playwright' = [needs_playwright EXCEPT ![w] = TRUE]
                   /\ proxy' = [proxy EXCEPT ![w] = "None"]
                   /\ fpc' = [fpc EXCEPT ![w] = "fallback"]
                   /\ UNCHANGED <<furl, is_homepage, retries, attempt,
                                  requests_result, wake, proxy_failures,
                                  proxies_list, returned, http_status>>
              ELSE /\ record_proxy_failure(proxy[w])
                   /\ proxy' = [proxy EXCEPT ![w] = "None"]
                   /\ IF attempt[w] < retries[w] - 1
                        THEN /\ wake' = [wake EXCEPT ![w] = now + 1 + attempt[w]]
                             /\ fpc' = [fpc EXCEPT ![w] = "backoff"]
                        ELSE /\ fpc' = [fpc EXCEPT ![w] = "fallback"]
                             /\ UNCHANGED wake
                   /\ UNCHANGED <<furl, is_homepage, retries, attempt,
                                  requests_result, needs_playwright, returned,
                                  http_status>>
  /\ UNCHANGED <<now, limiterVars, use_proxies, working_proxies, max_retries,
                 fphase, playwright_count, calls, fetchObs, browser_result>>

\* A loop that starts the next iteration without sleeping.
Backoff_NoSleep(w) ==
  /\ fpc[w] = "backoff"
  /\ attempt' = [attempt EXCEPT ![w] = @ + 1]
  /\ fpc' = [fpc EXCEPT ![w] = "attempt"]
  /\ wake' = [wake EXCEPT ![w] = 0]
  /\ response' = [response EXCEPT ![w] = 0]
  /\ UNCHANGED <<now, limiterVars, proxyVars, max_retries, fphase, playwright_count,
                 calls, furl, is_homepage, retries, proxy, requests_result,
                 needs_playwright, fetchObs, browser_result, returned,
                 http_status>>

\* End of time.sleep(1 + attempt): the next iteration.
Backoff(w) ==
  /\ fpc[w] = "backoff"
  /\ now >= wake[w]
  /\ attempt' = [attempt EXCEPT ![w] = @ + 1]
  /\ fpc' = [fpc EXCEPT ![w] = "attempt"]
  /\ wake' = [wake EXCEPT ![w] = 0]
  /\ response' = [response EXCEPT ![w] = 0]
  /\ UNCHANGED <<now, limiterVars, proxyVars, max_retries, fphase, playwright_count,
                 calls, furl, is_homepage, retries, proxy, requests_result,
                 needs_playwright, fetchObs, browser_result, returned,
                 http_status>>

\* http_status of the result of the final return: that of requests_result
\* if there is one, else the -1 of the all-methods-failed error.
FinalStatus(w) == IF requests_result[w] THEN http_status[w] ELSE -1

\* A final return that forgets requests_result.
FinalReturn_AlwaysError(w) == Returns("error", "none")

\* The return at the end of scrape_with_fallback: requests_result if there
\* is one, else the all-methods-failed error.
FinalReturn(w) ==
  IF requests_result[w] THEN Returns("success", "requests")
                        ELSE Returns("error", "none")

\* After the loop: the browser strategy when it is enabled and wanted, else
\* the final return.  playwright_count stays below the 100 that recycles
\* the browser.
Fallback(w) ==
  /\ fpc[w] = "fallback"
  /\ IF use_playwright /\ (needs_playwright[w] \/ ~requests_result[w])
       THEN /\ playwright_count' = playwright_count + 1
            /\ StartsAttempt(furl[w])
            /\ fpc' = [fpc EXCEPT ![w] = "browser"]
            /\ UNCHANGED <<callVars, returned, http_status>>
       ELSE /\ Return(w, FinalReturn(w))
            /\ http_status' = [http_status EXCEPT ![w] = FinalStatus(w)]
            /\ UNCHANGED <<playwright_count, fetchObs>>
  /\ response' = [response EXCEPT ![w] = 0]
  /\ UNCHANGED <<now, limiterVars, proxyVars, max_retries, fphase, calls, browser_result>>

\* What page.goto can do in the browser strategy: a response with its
\* status (a page, or a challenge page with 403), no response object, a
\* PlaywrightTimeout, or another exception.
PageAnswers ==
  { [kind |-> "response", status |-> c] : c \in {200, 403} }
    \cup { [kind |-> k, status |-> 0] : k \in {"none", "timeout", "error"} }

\* SeleniumScraper.scrape_url from what page.goto did: the page is read and
\* returned as a success whatever the status of the response.
scrape_url(answer) ==
  IF answer.kind = "timeout"
    THEN [status |-> "error", http_status |-> 408]
    ELSE IF answer.kind = "error"
      THEN [status |-> "error", http_status |-> 500]
      ELSE [status |-> "success",
            http_status |-> IF answer.kind = "response" THEN answer.status
                                                        ELSE 200]

\* scrape_url_playwright: the result of scraper.scrape_url with its status
\* and http_status carried over.
scrape_url_playwright(answer) ==
  LET result == scrape_url(answer)
  IN  [status |-> result.status, http_status |-> result.http_status]

\* A browser strategy that is tried again after it failed.
FinishBrowser_TriesAgain(w) ==
  /\ fpc[w] = "browser"
  /\ \E answer \in PageAnswers :
       LET result == scrape_url_playwright(answer)
       IN
       /\ browser_result' = [browser_result EXCEPT ![w] = result.status]
       /\ IF result.status = "success"
            THEN /\ Return(w, Returns("success", "playwright"))
                 /\ http_status' =
                      [http_status EXCEPT ![w] = result.http_status]
            ELSE /\ fpc' = [fpc EXCEPT ![w] = "fallback"]
                 /\ UNCHANGED <<callVars, returned, is_homepage, http_status>>
  /\ UNCHANGED <<now, limiterVars, proxyVars, max_retries, fphase, playwright_count,
                 calls, fetchObs, response>>

\* scrape_url_playwright has answered: its result on success, else
\* requests_result if there is one, else the final return.
FinishBrowser(w) ==
  /\ fpc[w] = "browser"
  /\ \E answer \in PageAnswers :
       LET result == scrape_url_playwright(answer)
       IN
       /\ browser_result' = [browser_result EXCEPT ![w] = result.status]
       /\ IF result.status = "success"
            THEN /\ Return(w, Returns("success", "playwright"))
                 /\ http_status' =
                      [http_status EXCEPT ![w] = result.http_status]
            ELSE /\ Return(w, FinalReturn(w))
                 /\ http_status' = [http_status EXCEPT ![w] = FinalStatus(w)]
  /\ UNCHANGED <<now, limiterVars, proxyVars, max_retries, fphase, playwright_count,
                 calls, fetchObs, response>>

NextFetch ==
  \/ ProxySetup /\ UNCHANGED <<ovars, pvars, xvars, bvars>>
  \/ Tick /\ UNCHANGED <<ovars, pvars, xvars, bvars>>
  \/ \E w \in Workers : Call(w) /\ UNCHANGED <<ovars, pvars, xvars, bvars>>
  \/ \E w \in Workers : wait_for_domain_enter(w) /\ UNCHANGED <<ovars, pvars, xvars, bvars>>
  \/ \E w \in Workers : wait_for_domain_leave(w) /\ UNCHANGED <<ovars, pvars, xvars, bvars>>
  \/ \E w \in Workers : StartAttempt(w) /\ UNCHANGED <<ovars, pvars, xvars, bvars>>
  \/ \E w \in Workers : FinishAttempt(w) /\ UNCHANGED <<ovars, pvars, xvars, bvars>>
  \/ \E w \in Workers : Backoff(w) /\ UNCHANGED <<ovars, pvars, xvars, bvars>>
  \/ \E w \in Workers : Fallback(w) /\ UNCHANGED <<ovars, pvars, xvars, bvars>>
  \/ \E w \in Workers : FinishBrowser(w) /\ UNCHANGED <<ovars, pvars, xvars, bvars>>

SpecFetch == InitFetch /\ [][NextFetch]_vars

\* The run some time after its start: an earlier call for the domain of the
\* first row has just stamped the rate limiter and has returned, and the
\* calls that follow are the ones observed.
InitLimiter ==
  /\ RunInProgress
  /\ use_proxies = FALSE
  /\ max_retries = MaxRetries
  /\ NoCalls
  /\ last_request = [d \in Domains |-> IF d = netloc(FetchRows[1])
                                         THEN min_delay ELSE 0]
  /\ last_attempt = [d \in Domains |-> IF d = netloc(FetchRows[1])
                                         THEN min_delay ELSE -1]
  /\ NoPage
  /\ NoExtract
  /\ NoBrowser

SpecLimiter == InitLimiter /\ [][NextFetch]_vars

(***************************************************************************)
(* SpecPage: process_homepage on one homepage whose fetch succeeded.  The  *)
(* document's links, as extract_structured_links categorizes them, the     *)
(* settings and the filter rows are the inputs; every fetch of an internal *)
(* page is one step that succeeds with some document or fails.             *)
(***************************************************************************)
StartsWith(s, p) == Len(p) <= Len(s) /\ SubSeq(s, 1, Len(p)) = p

EndsWith(s, p) ==
  Len(p) <= Len(s) /\ SubSeq(s, Len(s) - Len(p) + 1, Len(s)) = p

\* sub in s, of Python strings.
Contains(s, sub) ==
  \E i \in 0..(Len(s) - Len(sub)) : SubSeq(s, i + 1, i + Len(sub)) = sub

UpperCase == Chars("ABCDEFGHIJKLMNOPQRSTUVWXYZ")

LowerCase == Chars("abcdefghijklmnopqrstuvwxyz")

Digits == Range(Chars("0123456789"))

UpperLetters == Range(UpperCase)

Letters == UpperLetters \cup Range(LowerCase)

\* str.lower(), character by character.
LowerPiece(piece) ==
  IF piece \in UpperLetters
    THEN LowerCase[CHOOSE i \in 1..26 : UpperCase[i] = piece]
    ELSE piece

lower(email) ==
  SubSeq([i \in 1..Len(email) |-> LowerPiece(email[i])], 1, Len(email))

\* \s of the regular expressions.
Whitespace == {" ", "\t", "\n"}

\* The characters clean_email strips from both ends.
JunkPieces ==
  {"<", ">", "[", "]", "(", ")", "\"", "'", ":", ";", ","} \cup Whitespace

RECURSIVE LStrip(_, _)
LStrip(email, junk) ==
  IF email # <<>> /\ Head(email) \in junk
    THEN LStrip(Tail(email), junk)
    ELSE email

RECURSIVE RStrip(_, _)
RStrip(email, junk) ==
  IF email # <<>> /\ email[Len(email)] \in junk
    THEN RStrip(SubSeq(email, 1, Len(email) - 1), junk)
    ELSE email

\* A match of u003[cCeE] starts the text.
IsUnicodeEscape(email) ==
  /\ Len(email) >= 5
  /\ SubSeq(email, 1, 4) = Chars("u003")
  /\ email[5] \in {"c", "C", "e", "E"}

\* re.sub(r'u003[cCeE]', '', email)
RECURSIVE RemoveUnicodeEscapes(_)
RemoveUnicodeEscapes(email) ==
  IF email = <<>> THEN <<>>
  ELSE IF IsUnicodeEscape(email)
    THEN RemoveUnicodeEscapes(SubSeq(email, 6, Len(email)))
    ELSE <<Head(email)>> \o RemoveUnicodeEscapes(Tail(email))

clean_email(email) ==
  LET stripped == RStrip(LStrip(email, JunkPieces), JunkPieces)
  IN  RStrip(LStrip(RemoveUnicodeEscapes(stripped), Whitespace), Whitespace)

BLOCKED_EMAIL_DOMAINS ==
  { Chars("sentry.io"), Chars("sentry.wixpress.com"),
    Chars("sentry-next.wixpress.com"), Chars("analytics.google.com"),
    Chars("google-analytics.com"), Chars("googletagmanager.com"),
    Chars("tracking.com"), Chars("email-tracking.com"),
    Chars("wixpress.com"), Chars("sharethis.com"), Chars("addthis.com"),
    Chars("users.noreply.github.com"), Chars("noreply.github.com"),
    Chars("reply.github.com"), Chars("notifications.google.com") }

BLOCKED_EMAIL_PREFIXES ==
  { Chars("noreply"), Chars("no-reply"), Chars("donotreply"),
    Chars("do-not-reply"), Chars("bounce"), Chars("mailer"),
    Chars("daemon"), Chars("postmaster"), Chars("webmaster"),
    Chars("admin@localhost"), Chars("root@"), Chars("test@"),
    Chars("example@") }

\* Position of the last "@" of an email that holds one.
LastAt(email) ==
  CHOOSE i \in 1..Len(email) :
    /\ email[i] = "@"
    /\ \A j \in (i + 1)..Len(email) : email[j] # "@"

\* s.replace(c, '') for every c of chars.
Without(s, chars) ==
  LET Kept(c) == c \notin chars
  IN  SelectSeq(s, Kept)

\* str.isdigit(): false on the empty string.
isdigit(s) == s # <<>> /\ \A i \in 1..Len(s) : s[i] \in Digits

\* is_valid_email(email, user_id); found is what the EmailFilter query
\* yields inside it: the patterns of the active "contains" rows, or nothing
\* when the query raised and the except clause passed.
is_valid_email(email, found) ==
  LET email_lower == clean_email(lower(email))
  IN  IF "@" \notin Range(email_lower) \/ Len(email_lower) < 5 THEN FALSE
      ELSE LET email_prefix == SubSeq(email_lower, 1, LastAt(email_lower) - 1)
               domain_part == SubSeq(email_lower, LastAt(email_lower) + 1,
                                     Len(email_lower))
           IN  /\ Len(email_prefix) >= 2
               /\ \A blocked \in BLOCKED_EMAIL_DOMAINS :
                    /\ domain_part # blocked
                    /\ ~EndsWith(domain_part, <<".">> \o blocked)
               /\ \A blocked \in BLOCKED_EMAIL_PREFIXES :
                    ~StartsWith(email_prefix, Without(blocked, {"@"}))
               /\ ~isdigit(Without(email_prefix, {"-", "_", "."}))
               /\ ~ /\ Len(email_prefix) > 30
                    /\ \A i \in 1..10 : email_prefix[i] \notin Letters
               /\ \A pattern \in found :
                    ~Contains(email_lower, lower(pattern))

\* \w of the regular expressions.
WordChars == Letters \cup Digits \cup {"_"}

\* Count of the characters of class that follow each other from text[i] on.
RECURSIVE Run(_, _, _)
Run(text, i, class) ==
  IF i <= Len(text) /\ text[i] \in class
    THEN 1 + Run(text, i + 1, class)
    ELSE 0

\* The literal lit is at text[i], whatever the case (re.IGNORECASE).
IsAt(text, i, lit) ==
  /\ i + Len(lit) - 1 <= Len(text)
  /\ lower(SubSeq(text, i, i + Len(lit) - 1)) = lower(lit)

\* OBFUSCATION_PATTERNS, in the order of the list.  A bracketed pattern is
\* \s*<open>\s*<word>\s*<close>\s*, a worded one (?<=\w)\s+<word>\s+(?=\w),
\* an entity is a literal.
Bracketed(opening, word, closing, repl) ==
  [kind |-> "bracketed", opening |-> opening, word |-> Chars(word),
   closing |-> closing, repl |-> repl]

Worded(word, repl) ==
  [kind |-> "worded", opening |-> "", word |-> Chars(word), closing |-> "",
   repl |-> repl]

Entity(word, repl) ==
  [kind |-> "entity", opening |-> "", word |-> Chars(word), closing |-> "",
   repl |-> repl]

OBFUSCATION_PATTERNS ==
  << Bracketed("[", "at", "]", "@"), Bracketed("(", "at", ")", "@"),
     Bracketed("{", "at", "}", "@"), Bracketed("<", "at", ">", "@"),
     Bracketed("[", "dot", "]", "."), Bracketed("(", "dot", ")", "."),
     Bracketed("{", "dot", "}", "."),
     Bracketed("[", "arroba", "]", "@"), Bracketed("(", "arroba", ")", "@"),
     Worded("at", "@"), Worded("dot", "."),
     Entity("&#64;", "@"), Entity("&#x40;", "@"), Entity("&commat;", "@") >>

\* Length of the match of a pattern that starts at text[i]; 0 without one.
\* The greedy \s* and \s+ take the whole run of whitespace: what follows
\* them in a pattern is no whitespace.
MatchLen(pattern, text, i) ==
  CASE pattern.kind = "bracketed" ->
         LET o == i + Run(text, i, Whitespace)
             w == o + 1 + Run(text, o + 1, Whitespace)
             c == w + Len(pattern.word)
                    + Run(text, w + Len(pattern.word), Whitespace)
             end == c + 1 + Run(text, c + 1, Whitespace)
         IN  IF /\ IsAt(text, o, <<pattern.opening>>)
                /\ IsAt(text, w, pattern.word)
                /\ IsAt(text, c, <<pattern.closing>>)
               THEN end - i
               ELSE 0
    [] pattern.kind = "worded" ->
         LET w == i + Run(text, i, Whitespace)
             after == w + Len(pattern.word)
             end == after + Run(text, after, Whitespace)
         IN  IF /\ i > 1
                /\ text[i - 1] \in WordChars
                /\ w > i
                /\ IsAt(text, w, pattern.word)
                /\ end > after
                /\ end <= Len(text)
                /\ text[end] \in WordChars
               THEN end - i
               ELSE 0
    [] pattern.kind = "entity" ->
         IF IsAt(text, i, pattern.word) THEN Len(pattern.word) ELSE 0

\* re.sub(pattern, replacement, text) from text[i] on: the matches from left
\* to right, none overlapping another.
RECURSIVE sub(_, _, _)
sub(pattern, text, i) ==
  IF i > Len(text) THEN <<>>
  ELSE LET n == MatchLen(pattern, text, i)
       IN  IF n > 0
             THEN <<pattern.repl>> \o sub(pattern, text, i + n)
             ELSE <<text[i]>> \o sub(pattern, text, i + 1)

\* re.sub(r'u003[cCeE]', ...): "<" for u003c, ">" for u003e.
RECURSIVE DecodeUnicodeEscapes(_)
DecodeUnicodeEscapes(text) ==
  IF text = <<>> THEN <<>>
  ELSE IF IsUnicodeEscape(text)
    THEN <<IF LowerPiece(text[5]) = "c" THEN "<" ELSE ">">>
           \o DecodeUnicodeEscapes(SubSeq(text, 6, Len(text)))
    ELSE <<Head(text)>> \o DecodeUnicodeEscapes(Tail(text))

RECURSIVE ApplyPatterns(_, _)
ApplyPatterns(patterns, text) ==
  IF patterns = <<>> THEN text
  ELSE ApplyPatterns(Tail(patterns), sub(Head(patterns), text, 1))

\* deobfuscate_text(text).  The texts of the model hold no backslash, so
\* the first re.sub, on \uXXXX, finds nothing in them.
deobfuscate_text(text) ==
  ApplyPatterns(OBFUSCATION_PATTERNS, DecodeUnicodeEscapes(text))

\* \b at text[i]: one of text[i - 1] and text[i] is a word character, the
\* other is not or does not exist.
Boundary(text, i) ==
  (i > 1 /\ text[i - 1] \in WordChars)
    # (i <= Len(text) /\ text[i] \in WordChars)

LocalClass == Letters \cup Digits \cup {".", "_", "%", "+", "-"}

DomainClass == Letters \cup Digits \cup {".", "-"}

\* Index of the last character of the match of EMAIL_REGEX that starts at
\* text[i]; 0 without one.  The local part is the whole run up to "@"; the
\* greedy domain gives back characters until a "." is followed by two
\* letters or more that end at a \b: the last such "." is taken.
EmailMatchEnd(text, i) ==
  LET at == i + 1 + Run(text, i + 1, LocalClass)
      last == at + 1 + Run(text, at + 2, DomainClass)
      TldAt(p) ==
        /\ text[p] = "."
        /\ Run(text, p + 1, Letters) >= 2
        /\ Boundary(text, p + 1 + Run(text, p + 1, Letters))
      dots == { p \in (at + 2)..last : TldAt(p) }
  IN  IF /\ Boundary(text, i)
         /\ text[i] \in Letters \cup Digits
         /\ at + 1 <= Len(text)
         /\ text[at] = "@"
         /\ text[at + 1] \in Letters \cup Digits
         /\ dots # {}
        THEN LET p == CHOOSE q \in dots : \A r \in dots : r <= q
             IN  p + Run(text, p + 1, Letters)
        ELSE 0

\* EMAIL_REGEX.findall(text) from text[i] on.
RECURSIVE findall(_, _)
findall(text, i) ==
  IF i > Len(text) THEN <<>>
  ELSE LET end == EmailMatchEnd(text, i)
       IN  IF end > 0
             THEN <<SubSeq(text, i, end)>> \o findall(text, end + 1)
             ELSE findall(text, i + 1)

\* Lines 193-205: the cleaned matches that are valid, each once.
RECURSIVE ValidEmails(_, _, _)
ValidEmails(raw_emails, valid_emails, found) ==
  IF raw_emails = <<>> THEN valid_emails
  ELSE LET email_cleaned == clean_email(lower(Head(raw_emails)))
       IN  ValidEmails(Tail(raw_emails),
             IF /\ email_cleaned \notin Range(valid_emails)
                /\ is_valid_email(email_cleaned, found)
               THEN Append(valid_emails, email_cleaned)
               ELSE valid_emails,
             found)

\* extract_emails_from_text(text, user_id)
extract_emails_from_text(text, found) ==
  ValidEmails(findall(deobfuscate_text(text), 1), <<>>, found)

\* What the EmailFilter query of is_valid_email yields now.
FiltersFound == IF filter_query_raises THEN {} ELSE email_filters

extract_mailto_emails(doc) ==
  { lower(email_part) : email_part \in { e \in doc.mailto : "@" \in Range(e) } }

\* The emails of the passages of a document's text.
text_emails(doc, found) ==
  UNION { Range(extract_emails_from_text(passage, found)) :
            passage \in doc.text }

\* The variant that skips the final filter.
extract_all_emails_Unfiltered(doc, found) ==
  extract_mailto_emails(doc) \cup text_emails(doc, found)

extract_all_emails(doc, found) ==
  { e \in extract_mailto_emails(doc) \cup text_emails(doc, found) :
      is_valid_email(e, found) }

process_scraped_page(doc, found) ==
  [emails |-> extract_all_emails(doc, found), social |-> doc.social]

\* What process_scraped_page can return for a fetched document, per result
\* of the EmailFilter query.
ScrapedTable ==
  { <<found, process_scraped_page(doc, found)>> :
      found \in SUBSET FilterPatterns, doc \in Documents }

ScrapedPages ==
  [found \in SUBSET FilterPatterns |->
     { row[2] : row \in { r \in ScrapedTable : r[1] = found } }]

\* matches_exclusion: a pattern matches a URL that contains it.
matches_exclusion(url, patterns) ==
  \E pattern \in patterns : pattern \in Range(url)

\* list(dict.fromkeys(links)): the first occurrence of every link.
RECURSIVE fromkeys(_, _)
fromkeys(links, acc) ==
  IF links = <<>> THEN acc
  ELSE fromkeys(Tail(links),
         IF Head(links) \in Range(acc) THEN acc ELSE Append(acc, Head(links)))

\* links[:n] of Python: a negative n counts from the end.
Slice(links, n) ==
  IF n >= 0 THEN SubSeq(links, 1, Min(n, Len(links)))
  ELSE SubSeq(links, 1, Max(Len(links) + n, 0))

\* settings.max_internal_links or 25
max_internal == IF max_internal_links # 0 THEN max_internal_links ELSE 25

\* Lines 930-966: the links process_homepage will crawl.
select_links(links) ==
  LET collected == links["contact"] \o links["footer"] \o links["header"]
                     \o links["body"]
      NotExcluded(link) == ~matches_exclusion(link, url_exclusion_patterns)
      kept == IF url_exclusion_patterns # {}
                THEN SelectSeq(collected, NotExcluded)
                ELSE collected
  IN  Slice(fromkeys(kept, <<>>), max_internal)

\* The variant in which a later page's link replaces the stored one.
update_social_LastWins(social, found_social) ==
  [platform \in Platforms |->
     IF found_social[platform] # "None"
       THEN found_social[platform]
       ELSE social[platform]]

\* Lines 988-990: a platform's link is set only while none is stored.
update_social(social, found_social) ==
  [platform \in Platforms |->
     IF found_social[platform] # "None" /\ social[platform] = "None"
       THEN found_social[platform]
       ELSE social[platform]]

\* The documents whose links extract_structured_links puts in categories:
\* a link is in one category at most, once, in the order of the document.
StructuredLinks ==
  { [c \in Categories |->
       LET InCategory(link) == category[link] = c
       IN  SelectSeq(order, InCategory)] :
      order \in Orders(Links), category \in [Links -> Categories] }

InitPage ==
  /\ RunInProgress
  /\ use_playwright = FALSE
  /\ use_proxies = FALSE
  /\ max_retries = MaxRetries
  /\ NoFetch
  /\ max_internal_links \in LinkSettings
  /\ url_exclusion_patterns \in SUBSET Patterns
  /\ email_filters = {}
  /\ filter_query_raises \in BOOLEAN
  /\ hpc = "page"
  /\ page_links \in StructuredLinks
  /\ links_to_scrape = <<>>
  /\ link_idx = 0
  /\ checked_links = {}
  /\ all_emails = {}
  /\ social_links = NoSocial
  /\ emails_list = {}
  /\ int_emails = {}
  /\ NoExtract
  /\ NoBrowser

settingsVars == <<max_internal_links, url_exclusion_patterns,
                  filter_query_raises>>

\* toggle_email_filter on the user's row, while the engine runs.
toggle_email_filter ==
  /\ hpc \in {"page", "crawl"}
  /\ \E pattern \in FilterPatterns :
       email_filters' = IF pattern \in email_filters
                          THEN email_filters \ {pattern}
                          ELSE email_filters \cup {pattern}
  /\ UNCHANGED <<settingsVars, hpc, page_links, links_to_scrape, link_idx,
                 checked_links, all_emails, social_links, emails_list,
                 int_emails>>

\* Lines 915-969: the homepage's page data starts the aggregate and the
\* links to crawl are chosen.  page_data['links'] is not read after that.
ProcessPage ==
  /\ hpc = "page"
  /\ links_to_scrape' = select_links(page_links)
  /\ page_links' = NoLinks
  /\ checked_links' = {homepage_url}
  /\ link_idx' = 0
  /\ hpc' = "crawl"
  /\ \E page_data \in ScrapedPages[FiltersFound] :
       /\ all_emails' = page_data.emails
       /\ int_emails' = page_data.emails
       /\ social_links' = page_data.social
  /\ UNCHANGED <<settingsVars, email_filters, emails_list>>

\* Lines 972-990: one turn of the loop over links_to_scrape.
CrawlLink ==
  /\ hpc = "crawl"
  /\ link_idx < Len(links_to_scrape)
  /\ link_idx' = link_idx + 1
  /\ LET internal_url == links_to_scrape[link_idx + 1]
     IN  IF internal_url \in checked_links
           THEN UNCHANGED <<checked_links, all_emails, social_links,
                            int_emails>>
           ELSE /\ checked_links' = checked_links \cup {internal_url}
                /\ \/ \E int_data \in ScrapedPages[FiltersFound] :
                        /\ all_emails' = all_emails \cup int_data.emails
                        /\ int_emails' = int_data.emails
                        /\ social_links' =
                             update_social(social_links, int_data.social)
                   \/ UNCHANGED <<all_emails, social_links, int_emails>>
  /\ UNCHANGED <<settingsVars, email_filters, hpc, page_links,
                 links_to_scrape, emails_list>>

\* Lines 992-1013 and 1025-1027: the record is stored, or the commit raises
\* and the session is rolled back.
SaveRecord ==
  /\ hpc = "crawl"
  /\ link_idx = Len(links_to_scrape)
  /\ \/ /\ emails_list' = all_emails
        /\ hpc' = "saved"
     \/ /\ hpc' = "rolled_back"
        /\ UNCHANGED emails_list
  /\ UNCHANGED <<settingsVars, email_filters, page_links, links_to_scrape,
                 link_idx, checked_links, all_emails, social_links,
                 int_emails>>

NextPage ==
  \/ toggle_email_filter /\ UNCHANGED <<ovars, fvars, xvars, bvars>>
  \/ ProcessPage /\ UNCHANGED <<ovars, fvars, xvars, bvars>>
  \/ CrawlLink /\ UNCHANGED <<ovars, fvars, xvars, bvars>>
  \/ SaveRecord /\ UNCHANGED <<ovars, fvars, xvars, bvars>>

SpecPage == InitPage /\ [][NextPage]_vars

(***************************************************************************)
(* SpecValid: one call of is_valid_email(email) without a user_id, on an   *)
(* address of a set that meets every rule of the function.                 *)
(***************************************************************************)
\* The engine is out of the picture while one function is called.
EngineAside ==
  /\ RunInProgress
  /\ use_playwright = FALSE
  /\ use_proxies = FALSE
  /\ max_retries = MaxRetries
  /\ NoFetch
  /\ NoPage
  /\ NoBrowser

LocalParts ==
  { Chars("jane.doe"), Chars("Info"), Chars("a"), Chars("ab"), Chars("x1"),
    Chars("noreply"), Chars("No-Reply"), Chars("postmaster.eu"),
    Chars("testing"), Chars("12345678901"), Chars("1-2_3.4"), Chars("12"),
    Chars("--"), Chars("-._"),
    Chars("0123456789012345678901234567890x") }

DomainParts ==
  { Chars("acme-corp.com"), Chars("x.com"), Chars("example.com"),
    Chars("sentry.io"), Chars("Sentry.IO"), Chars("o.sentry.io"),
    Chars("notsentry.io"), Chars("c") }

\* What is_valid_email can be called on.
Addresses ==
  { local \o <<"@">> \o domain : local \in LocalParts, domain \in DomainParts }
    \cup { Chars("abcdef") }

InitValid ==
  /\ EngineAside
  /\ xpc = "call"
  /\ in_email \in Addresses
  /\ out_valid = "None"
  /\ NoTextCall
  /\ NoSocialCall
  /\ NoLinksCall
  /\ NoNormalizeCall

\* is_valid_email(in_email): user_id is None and no filter is looked up.
ValidateEmail ==
  /\ xpc = "call"
  /\ in_email # <<>>
  /\ out_valid' = IF is_valid_email(in_email, {}) THEN "True" ELSE "False"
  /\ xpc' = "done"
  /\ UNCHANGED <<in_email, in_text, intended, out_emails, in_soup,
                 out_social, taken_from, in_anchors, has_main, out_links,
                 in_url, out_url, out_key>>

NextValid ==
  \/ ValidateEmail /\ UNCHANGED <<ovars, fvars, pvars, bvars>>

SpecValid == InitValid /\ [][NextValid]_vars

(***************************************************************************)
(* SpecText: one call of extract_emails_from_text(text) on a text that is  *)
(* one address written with obfuscation markers.                           *)
(***************************************************************************)
\* Addresses that EMAIL_REGEX matches whole and is_valid_email accepts.
ValidAddresses ==
  { Chars("jane.doe@acme-corp.com"), Chars("info@a.com"),
    Chars("sales@example.co.uk"), Chars("jane_doe@x.org"),
    Chars("j.smith2@mail.example.com"), Chars("jane.at@x.com"),
    Chars("office@uni.at.eu"), Chars("jane-@x.com") }

AtMarkers ==
  { Chars("[at]"), Chars("(at)"), Chars(" at "), Chars("&#64;"),
    Chars("&#x40;"), Chars("&commat;") }

DotMarkers == { Chars("[dot]"), Chars(" dot "), Chars(".") }

\* s with marker in the place of every character c.
RECURSIVE Substitute(_, _, _)
Substitute(s, c, marker) ==
  IF s = <<>> THEN <<>>
  ELSE (IF Head(s) = c THEN marker ELSE <<Head(s)>>)
         \o Substitute(Tail(s), c, marker)

Obfuscate(address, at, dot) ==
  Substitute(Substitute(address, ".", dot), "@", at)

InitText ==
  /\ EngineAside
  /\ xpc = "call"
  /\ NoValidCall
  /\ NoSocialCall
  /\ NoLinksCall
  /\ NoNormalizeCall
  /\ intended \in ValidAddresses
  /\ \E at \in AtMarkers, dot \in DotMarkers :
       in_text = Obfuscate(intended, at, dot)
  /\ out_emails = <<>>

\* extract_emails_from_text(in_text): user_id is None.
ExtractFromText ==
  /\ xpc = "call"
  /\ in_text # <<>>
  /\ out_emails' = extract_emails_from_text(in_text, {})
  /\ xpc' = "done"
  /\ UNCHANGED <<in_email, out_valid, in_text, intended, in_soup,
                 out_social, taken_from, in_anchors, has_main, out_links,
                 in_url, out_url, out_key>>

NextText ==
  \/ ExtractFromText /\ UNCHANGED <<ovars, fvars, pvars, bvars>>

SpecText == InitText /\ [][NextText]_vars

(***************************************************************************)
(* SpecSocial: one call of extract_social_links(soup) on a document of up  *)
(* to MaxSoupLinks links.  The platforms are the first two of              *)
(* SOCIAL_PLATFORMS, in the order of the dictionary.                       *)
(***************************************************************************)
SOCIAL_PLATFORMS ==
  << [name |-> "facebook",
      domains |-> { Chars("facebook.com"), Chars("fb.com"), Chars("fb.me"),
                    Chars("www.facebook.com") },
      exclude |-> { Chars("sharer"), Chars("share.php"), Chars("dialog"),
                    Chars("plugins"), Chars("login"), Chars("/groups/"),
                    Chars("photo.php"), Chars("events/"), Chars("l.php") },
      class_hints |-> { Chars("facebook"), Chars("fb-"),
                        Chars("fa-facebook") }],
     [name |-> "twitter",
      domains |-> { Chars("twitter.com"), Chars("x.com"),
                    Chars("www.twitter.com"), Chars("www.x.com") },
      exclude |-> { Chars("share"), Chars("intent"), Chars("search"),
                    Chars("hashtag"), Chars("/i/"), Chars("status/"),
                    Chars("widgets") },
      class_hints |-> { Chars("twitter"), Chars("fa-twitter"),
                        Chars("x-twitter") }] >>

ConfigOf(platform) ==
  LET k == CHOOSE i \in 1..Len(SOCIAL_PLATFORMS) :
             SOCIAL_PLATFORMS[i].name = platform
  IN  SOCIAL_PLATFORMS[k]

\* str.strip()
strip(s) == RStrip(LStrip(s, Whitespace), Whitespace)

\* Line 350: the share keywords of a link's text.
SHARE_WORDS ==
  { Chars("share"), Chars("tweet this"), Chars("post this"), Chars("pin it") }

\* Line 355: the share words of a link's classes.
SHARE_CLASSES ==
  { Chars("share"), Chars("sharer"), Chars("addthis"), Chars("sharethis") }

\* The variant that looks at the href only.
is_share_button_HrefOnly(href, link, config) ==
  \E exclude \in config.exclude : Contains(lower(href), lower(exclude))

\* is_share_button(href, link_element, platform_config)
is_share_button(href, link, config) ==
  LET href_lower == lower(href)
      link_text == lower(strip(link.text))
      classes == lower(link.class)
  IN  \/ \E exclude \in config.exclude : Contains(href_lower, lower(exclude))
      \/ \E word \in SHARE_WORDS : Contains(link_text, word)
      \/ \E word \in SHARE_CLASSES : Contains(classes, word)

\* Index of the first c of s; 0 without one.
Find(s, c) ==
  IF c \in Range(s)
    THEN CHOOSE i \in 1..Len(s) : s[i] = c /\ \A j \in 1..(i - 1) : s[j] # c
    ELSE 0

\* clean_social_url(href)
clean_social_url(href) ==
  IF "?" \in Range(href)
    THEN RStrip(SubSeq(href, 1, Find(href, "?") - 1), {"/"})
    ELSE RStrip(href, {"/"})

\* Line 453: len(clean_url) > 20
LongEnough(clean_url) == Len(clean_url) > 20

HasDomain(href, config) ==
  LET href_lower == lower(href)
  IN  \E domain \in config.domains : Contains(href_lower, domain)

\* Lines 386-432: the candidates, in the order of the three methods.
all_candidates(soup) ==
  LET InContainer(link) == link.where = "container"
      AroundIcon(link) == link.where = "icon"
      combined(link) == lower(link.href) \o <<" ">> \o lower(link.class)
      ByAttributes(link) ==
        \E k \in 1..Len(SOCIAL_PLATFORMS) :
          \/ HasDomain(link.href, SOCIAL_PLATFORMS[k])
          \/ \E hint \in SOCIAL_PLATFORMS[k].class_hints :
               Contains(combined(link), hint)
  IN  SelectSeq(soup, InContainer) \o SelectSeq(soup, AroundIcon)
        \o SelectSeq(soup, ByAttributes)

\* Lines 443-455 for one candidate: the platforms from the k-th on.
RECURSIVE MatchPlatform(_, _, _)
MatchPlatform(link, k, found) ==
  IF k > Len(SOCIAL_PLATFORMS) THEN found
  ELSE LET config == SOCIAL_PLATFORMS[k]
           clean_url == clean_social_url(link.href)
       IN  IF /\ found.links[config.name] = <<>>
              /\ HasDomain(link.href, config)
              /\ ~is_share_button(link.href, link, config)
              /\ clean_url # <<>>
              /\ LongEnough(clean_url)
             THEN [links |-> [found.links EXCEPT ![config.name] = clean_url],
                   taken |-> [found.taken EXCEPT ![config.name] = link]]
             ELSE MatchPlatform(link, k + 1, found)

SkippedSchemes ==
  { Chars("#"), Chars("javascript:"), Chars("mailto:"), Chars("tel:") }

\* Line 437: hrefs the loop passes over.
Skipped(href) ==
  \/ href = <<>>
  \/ \E start \in SkippedSchemes : StartsWith(href, start)

\* Lines 435-455: the loop over the candidates.
RECURSIVE ProcessCandidates(_, _)
ProcessCandidates(candidates, found) ==
  IF candidates = <<>> THEN found
  ELSE ProcessCandidates(Tail(candidates),
         IF Skipped(Head(candidates).href)
           THEN found
           ELSE MatchPlatform(Head(candidates), 1, found))

\* extract_social_links(soup), with the link every URL was taken from.
SocialLinksFound(soup) ==
  ProcessCandidates(all_candidates(soup),
    [links |-> [p \in Platforms |-> <<>>],
     taken |-> [p \in Platforms |-> NoLink]])

extract_social_links(soup) == SocialLinksFound(soup).links

Hrefs ==
  { Chars("https://facebook.com/acmecorp"),
    Chars("https://www.facebook.com/sharer/sharer.php?u=acme.com"),
    Chars("https://x.com/acme12"),
    Chars("https://x.com/acme123/"),
    Chars("https://x.com/acme12?ref=homepage"),
    Chars("https://twitter.com/intent/tweet?text=hello"),
    Chars("mailto:press@facebook.com") }

SoupLinks ==
  [href : Hrefs, text : { <<>>, Chars("Share") },
   class : { <<>>, Chars("btn-sharethis") },
   where : {"container", "icon", "plain"}]

Soups == UNION { [1..n -> SoupLinks] : n \in 0..MaxSoupLinks }

InitSocial ==
  /\ EngineAside
  /\ xpc = "call"
  /\ NoValidCall
  /\ NoTextCall
  /\ NoLinksCall
  /\ NoNormalizeCall
  /\ in_soup \in Soups
  /\ out_social = [p \in Platforms |-> <<>>]
  /\ taken_from = [p \in Platforms |-> NoLink]

ExtractSocial ==
  /\ xpc = "call"
  /\ in_email = <<>>
  /\ in_text = <<>>
  /\ LET found == SocialLinksFound(in_soup)
     IN  /\ out_social' = found.links
         /\ taken_from' = found.taken
  /\ xpc' = "done"
  /\ UNCHANGED <<in_email, out_valid, in_text, intended, out_emails, in_soup,
                 in_anchors, has_main, out_links, in_url, out_url, out_key>>

NextSocial ==
  \/ ExtractSocial /\ UNCHANGED <<ovars, fvars, pvars, bvars>>

SpecSocial == InitSocial /\ [][NextSocial]_vars

(***************************************************************************)
(* SpecLinks: one call of extract_structured_links(url, soup) on a         *)
(* document of up to MaxAnchors links.  A link stands in a header or       *)
(* navigation element, in a footer, in the main content or in none of      *)
(* them; in a document without a main content element the body stands for  *)
(* it and holds every link.                                                *)
(***************************************************************************)
CONTACT_KEYWORDS ==
  { Chars("contact"), Chars("contact-us"), Chars("contactus"),
    Chars("get-in-touch"), Chars("reach-us"), Chars("about-us"),
    Chars("aboutus"), Chars("about"), Chars("team"), Chars("support"),
    Chars("help") }

\* The URL of the page the links are taken from.
page_url == Chars("https://a.com")

IsAbsolute(href) ==
  StartsWith(href, Chars("http://")) \/ StartsWith(href, Chars("https://"))

\* What follows the "://" of an absolute URL.
AfterScheme(u) == SubSeq(u, Find(u, ":") + 3, Len(u))

\* Count of the characters before the first of chars in s.
RECURSIVE Before(_, _)
Before(s, chars) ==
  IF s = <<>> \/ Head(s) \in chars THEN 0 ELSE 1 + Before(Tail(s), chars)

\* urlparse(u).netloc of an absolute URL, character by character.
NetlocOf(u) ==
  SubSeq(AfterScheme(u), 1, Before(AfterScheme(u), {"/", "?", "#"}))

\* urljoin(base, href) for a base without a path: an absolute href stays,
\* a path is put behind the base's scheme and host.
urljoin(base, href) ==
  IF IsAbsolute(href) THEN href
  ELSE IF StartsWith(href, <<"/">>) THEN base \o href
  ELSE base \o <<"/">> \o href

is_same_domain(url1, url2) == NetlocOf(url1) = NetlocOf(url2)

\* full_url.split('#')[0].split('?')[0]
CleanUrl(full_url) ==
  LET base == SubSeq(full_url, 1, Before(full_url, {"#"}))
  IN  SubSeq(base, 1, Before(base, {"?"}))

\* add_link(category, link_url) on the lists and on seen_urls.
add_link(acc, category, link_url) ==
  LET full_url == urljoin(page_url, link_url)
      clean_url == CleanUrl(full_url)
  IN  IF link_url = <<>> \/ link_url \in acc.seen_urls THEN acc
      ELSE IF ~is_same_domain(page_url, full_url) THEN acc
      ELSE IF clean_url \in acc.seen_urls THEN acc
      ELSE [seen_urls |-> acc.seen_urls \cup {clean_url},
            links |-> [acc.links EXCEPT
                         ![category] = Append(@, clean_url)]]

\* is_contact_url(href, text)
is_contact_url(href, text) ==
  LET combined == lower(href \o <<" ">> \o text)
  IN  \E keyword \in CONTACT_KEYWORDS : Contains(combined, keyword)

\* One of the four loops: the links of anchors go to "contact" when
\* is_contact_url says so, else to category; the last loop has no else.
RECURSIVE AddLinks(_, _, _)
AddLinks(acc, anchors, category) ==
  IF anchors = <<>> THEN acc
  ELSE LET link == Head(anchors)
       IN  AddLinks(
             IF is_contact_url(link.href, strip(link.text))
               THEN add_link(acc, "contact", link.href)
               ELSE IF category = "none" THEN acc
               ELSE add_link(acc, category, link.href),
             Tail(anchors), category)

\* extract_structured_links(url, soup)
extract_structured_links(anchors, main) ==
  LET InHeader(link) == link.container = "header"
      InFooter(link) == link.container = "footer"
      InMain(link) == ~main \/ link.container = "body"
      start == [seen_urls |-> {}, links |-> NoLinks]
      header == AddLinks(start, SelectSeq(anchors, InHeader), "header")
      footer == AddLinks(header, SelectSeq(anchors, InFooter), "footer")
      body == AddLinks(footer, SelectSeq(anchors, InMain), "body")
  IN  AddLinks(body, anchors, "none").links

AnchorHrefs ==
  { Chars("/company"), Chars("/company?ref=nav"), Chars("/contact"),
    Chars("https://a.com/company"), Chars("https://b.com/contact") }

Anchors ==
  [container : {"header", "footer", "body", "other"}, href : AnchorHrefs,
   text : { Chars("Company"), Chars("Contact us") }]

AnchorLists == UNION { [1..n -> Anchors] : n \in 0..MaxAnchors }

InitLinks ==
  /\ EngineAside
  /\ xpc = "call"
  /\ NoValidCall
  /\ NoTextCall
  /\ NoSocialCall
  /\ in_anchors \in AnchorLists
  /\ has_main \in BOOLEAN
  /\ out_links = NoLinks
  /\ NoNormalizeCall

ExtractLinks ==
  /\ xpc = "call"
  /\ in_email = <<>>
  /\ in_text = <<>>
  /\ in_soup = <<>>
  /\ out_links' = extract_structured_links(in_anchors, has_main)
  /\ xpc' = "done"
  /\ UNCHANGED <<in_email, out_valid, in_text, intended, out_emails, in_soup,
                 out_social, taken_from, in_anchors, has_main, in_url,
                 out_url, out_key>>

NextLinks ==
  \/ ExtractLinks /\ UNCHANGED <<ovars, fvars, pvars, bvars>>

SpecLinks == InitLinks /\ [][NextLinks]_vars

(***************************************************************************)
(* SpecNormalize: normalize_url on a line, as process_homepage applies it  *)
(* to get the homepage_url it stores, and again on the stored homepage_url *)
(* as start_scraping does to build already_scraped.                        *)
(***************************************************************************)
\* The pieces a line is made of, and the lines normalize_url is called on.
UrlPieces == { "http:", "https:", "/", "a.com" }

Lines == SeqsUpTo(UrlPieces, MaxPieces)

InitNormalize ==
  /\ EngineAside
  /\ xpc = "call"
  /\ NoValidCall
  /\ NoTextCall
  /\ NoSocialCall
  /\ in_anchors = <<>>
  /\ has_main = FALSE
  /\ out_links = NoLinks
  /\ in_url \in Lines
  /\ out_url = <<>>
  /\ out_key = <<>>

\* homepage_url = normalize_url(project_url.url)
NormalizeLine ==
  /\ xpc = "call"
  /\ in_email = <<>>
  /\ in_text = <<>>
  /\ in_soup = <<>>
  /\ in_anchors = <<>>
  /\ out_url' = normalize_url(in_url)
  /\ xpc' = "stored"
  /\ UNCHANGED <<in_email, out_valid, in_text, intended, out_emails, in_soup,
                 out_social, taken_from, in_anchors, has_main, out_links,
                 in_url, out_key>>

\* normalize_url(r.homepage_url) of the stored record.
NormalizeStored ==
  /\ xpc = "stored"
  /\ out_key' = normalize_url(out_url)
  /\ xpc' = "done"
  /\ UNCHANGED <<in_email, out_valid, in_text, intended, out_emails, in_soup,
                 out_social, taken_from, in_anchors, has_main, out_links,
                 in_url, out_url>>

NextNormalize ==
  \/ NormalizeLine /\ UNCHANGED <<ovars, fvars, pvars, bvars>>
  \/ NormalizeStored /\ UNCHANGED <<ovars, fvars, pvars, bvars>>

SpecNormalize == InitNormalize /\ [][NextNormalize]_vars

(***************************************************************************)
(* The browser pool (selenium_scraper.py): the worker threads of the       *)
(* executors, the idents the interpreter hands them, _scraper_pool and     *)
(* each thread's _browser_storage                                          *)
(***************************************************************************)
InitBrowser ==
  /\ RunInProgress
  /\ use_playwright = TRUE
  /\ use_proxies = FALSE
  /\ max_retries = MaxRetries
  /\ NoFetch
  /\ NoPage
  /\ NoExtract
  /\ NoBrowser

\* An executor starts a worker thread.  Its ident is one that no live
\* thread has; the ident of a thread that has exited may be handed out
\* again.
StartThread ==
  /\ started < MaxThreadObjects
  /\ \E i \in Idents \ { ident[u] : u \in alive } :
       ident' = [ident EXCEPT ![started + 1] = i]
  /\ started' = started + 1
  /\ alive' = alive \cup {started + 1}
  /\ bpc' = [bpc EXCEPT ![started + 1] = "idle"]
  /\ UNCHANGED <<instance_pool, created, scraper, storage_playwright,
                 storage_browser, users, pw_count, served>>

\* A worker thread ends with its executor; its thread-local storage goes
\* with it.
ExitThread(t) ==
  /\ t \in alive
  /\ bpc[t] = "idle"
  /\ alive' = alive \ {t}
  /\ ident' = [ident EXCEPT ![t] = 0]
  /\ bpc' = [bpc EXCEPT ![t] = "gone"]
  /\ scraper' = [scraper EXCEPT ![t] = 0]
  /\ storage_playwright' = [storage_playwright EXCEPT ![t] = FALSE]
  /\ storage_browser' = [storage_browser EXCEPT ![t] = FALSE]
  /\ served' = [served EXCEPT ![t] = 0]
  /\ UNCHANGED <<started, instance_pool, created, users, pw_count>>

\* A pool keyed by one value for every thread.
thread_id_Shared(t) == 1

\* thread_id = threading.current_thread().ident
thread_id(t) == ident[t]

\* cleanup_selenium() on thread t, under _pool_lock: close() of the
\* thread's pooled scraper and removal of its entry.
cleanup_selenium(t) ==
  IF instance_pool[thread_id(t)] # 0
    THEN /\ storage_playwright' = close(t, storage_playwright)
         /\ storage_browser' = close(t, storage_browser)
         /\ instance_pool' = [instance_pool EXCEPT ![thread_id(t)] = 0]
         /\ served' = [served EXCEPT ![t] = 0]
    ELSE UNCHANGED <<storage_playwright, storage_browser, instance_pool,
                     served>>

\* scrape_with_fallback before the browser attempt, under playwright_lock:
\* playwright_count += 1 and the recycling of the calling thread's scraper
\* when the count is a multiple of RecycleEvery.
CountUse(t) ==
  /\ t \in alive
  /\ bpc[t] = "idle"
  /\ served[t] <= RecycleEvery
  /\ pw_count' = (pw_count + 1) % RecycleEvery
  /\ IF (pw_count + 1) % RecycleEvery = 0
       THEN cleanup_selenium(t)
       ELSE UNCHANGED <<storage_playwright, storage_browser, instance_pool,
                        served>>
  /\ bpc' = [bpc EXCEPT ![t] = "counted"]
  /\ UNCHANGED <<alive, started, ident, created, scraper, users>>

\* get_selenium_scraper() on thread t, under _pool_lock: the scraper under
\* the thread's key, created first when the key is absent.
get_selenium_scraper(t) ==
  /\ bpc[t] = "counted"
  /\ IF instance_pool[thread_id(t)] = 0
       THEN /\ created < MaxInstances
            /\ created' = created + 1
            /\ instance_pool' = [instance_pool EXCEPT ![thread_id(t)] = created + 1]
            /\ scraper' = [scraper EXCEPT ![t] = created + 1]
       ELSE /\ scraper' = [scraper EXCEPT ![t] = instance_pool[thread_id(t)]]
            /\ UNCHANGED <<created, instance_pool>>
  /\ bpc' = [bpc EXCEPT ![t] = "got"]
  /\ UNCHANGED <<alive, started, ident, storage_playwright, storage_browser,
                 users, pw_count, served>>

\* scraper.scrape_url up to page.goto: _ensure_browser on the calling
\* thread's _browser_storage.  With no playwright in the storage it starts
\* one and launches a browser, and either can raise; with a playwright it
\* returns the stored context, which is missing when an earlier launch
\* raised.  Every exception ends scrape_url with an error result.
ensure_browser(t) ==
  /\ bpc[t] = "got"
  /\ users' = [users EXCEPT ![scraper[t]] = @ \cup {t}]
  /\ IF ~storage_playwright[t]
       THEN \/ /\ storage_playwright' = [storage_playwright EXCEPT ![t] = TRUE]
               /\ storage_browser' = [storage_browser EXCEPT ![t] = TRUE]
               /\ served' = [served EXCEPT ![t] = 1]
               /\ bpc' = [bpc EXCEPT ![t] = "scraping"]
            \/ /\ storage_playwright' = [storage_playwright EXCEPT ![t] = TRUE]
               /\ UNCHANGED <<storage_browser, served>>
               /\ bpc' = [bpc EXCEPT ![t] = "idle"]
            \/ /\ UNCHANGED <<storage_playwright, storage_browser, served>>
               /\ bpc' = [bpc EXCEPT ![t] = "idle"]
       ELSE /\ UNCHANGED <<storage_playwright, storage_browser>>
            /\ served' = [served EXCEPT ![t] = IF storage_browser[t]
                                                 THEN @ + 1 ELSE @]
            /\ bpc' = [bpc EXCEPT ![t] = IF storage_browser[t] THEN "scraping"
                                                              ELSE "idle"]
  /\ UNCHANGED <<alive, started, ident, instance_pool, created, scraper,
                 pw_count>>

\* The rest of scrape_url: the page is loaded, read and closed, and the
\* result returned.
FinishScrape(t) ==
  /\ bpc[t] = "scraping"
  /\ bpc' = [bpc EXCEPT ![t] = "idle"]
  /\ UNCHANGED <<alive, started, ident, instance_pool, created, scraper,
                 storage_playwright, storage_browser, users, pw_count,
                 served>>

\* The finally block of a start_scraping call, on its orchestrating thread:
\* cleanup_all_selenium closes once per pooled scraper, each time on the
\* caller's own _browser_storage, and clears the pool.  Runs started from
\* the routes' threading fallback share the process, so the block of one
\* run can execute while the workers of another are alive.
CleanupAllScrapers ==
  /\ IF \E i \in Idents : instance_pool[i] # 0
       THEN /\ storage_playwright' = close(MainThread, storage_playwright)
            /\ storage_browser' = close(MainThread, storage_browser)
       ELSE UNCHANGED <<storage_playwright, storage_browser>>
  /\ instance_pool' = [i \in Idents |-> 0]
  /\ UNCHANGED <<alive, started, ident, created, scraper, users, pw_count,
                 bpc, served>>

NextBrowser ==
  \/ StartThread /\ UNCHANGED <<ovars, fvars, pvars, xvars>>
  \/ \E t \in BThreads : ExitThread(t) /\ UNCHANGED <<ovars, fvars, pvars, xvars>>
  \/ \E t \in BThreads : CountUse(t) /\ UNCHANGED <<ovars, fvars, pvars, xvars>>
  \/ \E t \in BThreads : get_selenium_scraper(t) /\ UNCHANGED <<ovars, fvars, pvars, xvars>>
  \/ \E t \in BThreads : ensure_browser(t) /\ UNCHANGED <<ovars, fvars, pvars, xvars>>
  \/ \E t \in BThreads : FinishScrape(t) /\ UNCHANGED <<ovars, fvars, pvars, xvars>>
  \/ CleanupAllScrapers /\ UNCHANGED <<ovars, fvars, pvars, xvars>>

SpecBrowser == InitBrowser /\ [][NextBrowser]_vars

(***************************************************************************)
(* Properties of the fetch layer (SpecFetch)                               *)
(***************************************************************************)
\* C1: any two request attempts on one domain during a run, direct retries
\* and browser attempts included, start at least min_delay apart.
C1_AttemptsMinDelayApart ==
  \A d \in Domains : ~too_close[d]

\* C2: a proxy of the tested pool with fail_threshold recorded failures is
\* no longer returned by get_proxy, and one with fewer still can be.
C2_EvictedAtThreshold ==
  fphase = "run" =>
    \A p \in Range(working_proxies) :
      /\ proxy_failures[p] >= fail_threshold => p \notin get_proxy
      /\ proxy_failures[p] < fail_threshold => p \in get_proxy

\* Occurrences of p in list.
Count(list, p) == Cardinality({ i \in 1..Len(list) : list[i] = p })

\* C3: after the health test the pool only loses entries, and a proxy that
\* is out of the pool is never in it again.
C3_EvictionMonotonic ==
  [][ fphase = "run" =>
        /\ \A p \in Proxies :
             Count(proxies_list', p) <= Count(proxies_list, p)
        /\ \A p \in Proxies :
             p \notin Range(proxies_list) => p \notin Range(proxies_list')
    ]_vars

\* A proxy of the tested pool is out of the pool and has failed again since.
C3_Witness ==
  /\ fphase = "run"
  /\ \E p \in Range(working_proxies) :
       /\ p \notin Range(proxies_list)
       /\ proxy_failures[p] > fail_threshold

\* C11: a direct attempt answered 403 or 503, with the browser fallback
\* enabled, is followed by no backoff and no further direct attempt: the
\* call goes on to the browser strategy.
C11_BlockedGoesToBrowser ==
  [][ \A w \in Workers :
        (fpc[w] = "request" /\ fpc'[w] # "request"
           /\ response'[w] \in {403, 503} /\ use_playwright)
          => fpc'[w] = "fallback"
    ]_vars

\* C12: for an internal page a successful direct fetch is returned at once
\* as the result, and the browser strategy runs for an internal page only
\* when no direct attempt succeeded.
C12_InternalNoRefetch ==
  /\ [][ \A w \in Workers :
           (fpc[w] = "request" /\ fpc'[w] # "request"
              /\ ~is_homepage[w] /\ response'[w] = 200)
             => /\ fpc'[w] = "idle"
                /\ returned'[w] = Returns("success", "requests")
                /\ playwright_count' = playwright_count
       ]_vars
  /\ [](\A w \in Workers :
          (fpc[w] = "browser" /\ ~is_homepage[w]) => ~requests_result[w])

\* An internal page whose direct fetch succeeded has been returned, and
\* another internal page is at the browser after a failed direct fetch.
C12_Witness ==
  \E w, v \in Workers :
    /\ fpc[w] = "idle" /\ ~is_homepage[w] /\ response[w] = 200
    /\ returned[w] = Returns("success", "requests")
    /\ fpc[v] = "browser" /\ ~is_homepage[v]

\* The call is a homepage whose direct fetch succeeded without emails, with
\* the browser fallback enabled.
EmptyHomepage(w) ==
  is_homepage[w] /\ requests_result[w] /\ needs_playwright[w]

\* C13: for such a homepage the browser strategy is tried once, and the
\* call returns the browser result if that succeeded, else the direct
\* result; never an error.
C13_EmptyHomepageResult ==
  [][ \A w \in Workers :
        /\ (fpc[w] = "fallback" /\ EmptyHomepage(w) /\ fpc'[w] # "fallback")
             => fpc'[w] = "browser"
        /\ (fpc[w] = "browser" /\ EmptyHomepage(w) /\ fpc'[w] # "browser")
             => /\ fpc'[w] = "idle"
                /\ playwright_count' = playwright_count
                /\ returned'[w] =
                     IF browser_result'[w] = "success"
                       THEN Returns("success", "playwright")
                       ELSE Returns("success", "requests")
    ]_vars

\* Such a homepage has come back with its direct result after the browser
\* failed.
C13_Witness ==
  \E w \in Workers :
    /\ fpc[w] = "idle" /\ is_homepage[w] /\ response[w] = 0
    /\ browser_result[w] = "error"
    /\ returned[w] = Returns("success", "requests")

\* C19: when no candidate proxy passes the health test, or there is no
\* candidate, proxying is off for the run and every request is issued
\* without a proxy; when some pass, a request uses no proxy or one that
\* passed.
C19_OnlyTestedProxies ==
  /\ [][ (fphase = "setup" /\ fphase' = "run" /\ working_proxies' = <<>>)
           => proxies_list' = <<>> ]_vars
  /\ [](\A w \in Workers :
          fpc[w] = "request" =>
            \/ proxy[w] = "None"
            \/ working_proxies # <<>> /\ proxy[w] \in Range(working_proxies))

\* Proxying is enabled with no candidate row, and a request is in flight
\* without a proxy.
C19_Witness ==
  /\ fphase = "run"
  /\ use_proxies
  /\ working_proxies = <<>>
  /\ \E w \in Workers : fpc[w] = "request" /\ proxy[w] = "None"

\* C20: an attempt gets no proxy exactly when proxying is disabled or the
\* active pool is empty, and otherwise a member of the active pool; once
\* every proxy is evicted the calls go on, without a proxy.
C20_ProxyFromActivePool ==
  [][ \A w \in Workers :
        (fpc[w] = "attempt" /\ fpc'[w] = "request") =>
          /\ proxy'[w] = "None" <=> (~use_proxies \/ proxies_list = <<>>)
          /\ proxy'[w] # "None" => proxy'[w] \in Range(proxies_list) ]_vars

\* Every proxy that passed the test has been evicted, and a request is in
\* flight without a proxy.
C20_Witness ==
  /\ fphase = "run"
  /\ use_proxies
  /\ working_proxies # <<>>
  /\ proxies_list = <<>>
  /\ \E w \in Workers : fpc[w] = "request" /\ proxy[w] = "None"

C35_SuccessOnlyFor2xx ==
  /\ \A w \in Workers :
       (fpc[w] = "idle" /\ returned[w].status = "success") =>
         http_status[w] \in 200..299
  /\ scrape_url_playwright([kind |-> "timeout", status |-> 0]).http_status
       # scrape_url_playwright([kind |-> "error", status |-> 0]).http_status

\* C37: the rate limiter delays a worker only for its own domain: while a
\* worker v sleeps out the minimum delay of its domain, a worker w that
\* calls wait_for_domain for another domain is not held up by v, that is,
\* v does not hold the lock w needs to go on.
C37_OnlyOwnDomainDelays ==
  \A w, v \in Workers :
    ( /\ fpc[w] = "wait"
      /\ fpc[v] = "limited" /\ now < wake[v]
      /\ netloc(furl[w]) # netloc(furl[v]) )
      => rl_lock # v

\* The step ends a direct attempt of worker w that failed without a
\* challenge status: a timeout, a connection error.
AttemptFails(w) ==
  /\ fpc[w] = "request"
  /\ fpc'[w] # "request"
  /\ response'[w] = -1

ReachesAttempt(w) ==
  \/ fpc[w] # "attempt" /\ fpc'[w] = "attempt"
  \/ fpc[w] # "browser" /\ fpc'[w] = "browser"

\* The step is the end of wait_for_domain for worker w: the clock records
\* the current time for the domain of w's url.
StampsDomain(w) ==
  /\ fpc[w] = "limited"
  /\ last_request'[netloc(furl[w])] = now

\* No domain's recorded timestamp goes back.
TimestampsNeverDecrease ==
  \A domain \in DOMAIN last_request :
    last_request'[domain] >= last_request[domain]

\* C29: every request attempt, each direct retry and each browser attempt,
\* comes right after a new last-request timestamp recorded for its domain,
\* and no domain's recorded timestamp ever decreases.
C29_StampBeforeEveryAttempt ==
  [][/\ \A w \in Workers : ReachesAttempt(w) => StampsDomain(w)
     /\ TimestampsNeverDecrease]_vars


(***************************************************************************)
(* Properties of the orchestrator (Spec)                                   *)
(***************************************************************************)
InRun == mpc \notin {"idle", "done"}
Exited == mpc \in {"cleanup", "done"}

C5_InFlightTasksFinish ==
  Exited =>
    \A i \in UrlIds : inflight[i] =>
      /\ fetches[i] = 1
      /\ outcome[i] \in {"fetch_failed", "persisted", "raised"}
      /\ outcome[i] = "persisted" => RecordsOf(Homepage(i)) # <<>>

\* The run exited on the pause and a task that was in flight at the pause
\* stored its record.
C5_Witness ==
  /\ mpc = "done"
  /\ exit_path = "final_paused"
  /\ \E i \in UrlIds :
       inflight[i] /\ outcome[i] = "persisted" /\ RecordsOf(Homepage(i)) # <<>>

\* C6: when start_scraping leaves its try block to clean up and return, by
\* any path, the stored status is completed, paused or error.
C6_TerminalStatus ==
  [][ (mpc # "cleanup" /\ mpc' = "cleanup") =>
        status' \in {"completed", "paused", "error"} ]_vars

DistinctHomepages ==
  \A i, j \in UrlIds : i # j => Homepage(i) # Homepage(j)

\* C8: a run that is never paused and exhausts its batches calls the
\* homepage fetch exactly once for every homepage without a record at its
\* start and never for one that had a record.
C8_ResumeIdempotence ==
  (Exited /\ exit_path = "final" /\ ~everPaused /\ DistinctHomepages) =>
    \A i \in UrlIds :
      fetches[i] = IF Homepage(i) \in already_scraped THEN 0 ELSE 1

\* A resumed run over M = 2 homepages of which N = 1 had a record.
C8_Witness ==
  /\ mpc = "done"
  /\ exit_path = "final"
  /\ ~everPaused
  /\ DistinctHomepages
  /\ \E i, j \in UrlIds :
       /\ Homepage(i) \in already_scraped /\ fetches[i] = 0
       /\ Homepage(j) \notin already_scraped /\ fetches[j] = 1

\* C9: a project holds at most one aggregated record per normalized
\* homepage URL.
C9_OneRecordPerHomepage ==
  \A i \in UrlIds : Len(RecordsOf(Homepage(i))) <= 1

\* C10: when start_scraping has returned, every browser a worker thread
\* opened is closed and the scraper pool is empty.
C10_BrowsersReleased ==
  mpc = "done" =>
    /\ \A t \in Threads : ~browser_open[t]
    /\ scraper_pool = {}

Failed(i) == outcome[i] \in {"fetch_failed", "raised"}

C16_CriticalEndsInError ==
  [][ /\ (mpc \in {"except", "internet"} /\ mpc' = "cleanup")
        => status' = "error"
      /\ (InRun /\ exit_path \in {"exception", "no_internet"})
        => status' # "completed" ]_vars

(***************************************************************************)
(* Properties of a run whose threads keep taking steps (SpecLive)          *)
(***************************************************************************)
\* C33: a run terminates: every run in progress reaches the return of
\* start_scraping.  The offset grows at each iteration of the batch loop,
\* the loop is left at the first empty batch or at an observed pause, and
\* the final status step and then the browser cleanup follow the loop.
C33_RunTerminates ==
  /\ (mpc \notin {"idle", "done"}) ~> (mpc = "done")
  /\ [][/\ (mpc = "wait" /\ mpc' = "loop") => offset' > offset
        /\ (mpc = "loop" /\ mpc' # "loop") =>
             mpc' = IF paused THEN "final" ELSE "query"
        /\ (mpc = "query" /\ mpc' = "final") => offset >= Len(project_urls)
        /\ (mpc = "query" /\ mpc' = "wait") => offset < Len(project_urls)
        /\ (mpc = "final" /\ mpc' # "final") => mpc' = "cleanup"
        /\ (mpc = "cleanup" /\ mpc' # "cleanup") => mpc' = "done"]_vars

\* A run has returned after a batch, the empty batch that ended the loop,
\* the final step and the cleanup.
C33_Witness ==
  /\ mpc = "done"
  /\ exit_path = "final"
  /\ batches >= 1
  /\ offset >= Len(project_urls)

(***************************************************************************)
(* Properties of pause and resume by the owner (SpecResume)                *)
(***************************************************************************)
\* The run that left the batch loop at an observed pause has returned, the
\* pause flag is cleared again and the status is running, but no run
\* executes and no job is queued.
ResumedWithoutRun ==
  /\ mpc = "done" /\ exit_path = "final_paused"
  /\ ~paused /\ status = "running" /\ jobs = 0

\* C36: after a run has exited on a pause, a resume request (the pause flag
\* cleared, which only resume_project does here) leads to a new run: the
\* project does not stay forever resumed, in status running, with no run
\* executing.
C36_ResumeStartsRun == []<>(~ResumedWithoutRun)

(***************************************************************************)
(* Properties of the executor and the progress (SpecPool)                  *)
(***************************************************************************)
\* The threads that are inside process_homepage.
Executing == { w \in DOMAIN wpc : wpc[w] # "idle" }

NoTaskInFlight == queue = <<>> /\ \A w \in Workers : wpc[w] = "idle"

\* C22: whenever no homepage task is in flight, processed_urls is the number
\* of records of the project, emails_found the sum of their email counts and
\* progress the floor of 100 * processed_urls / total_urls, within 0..100.
C22_ProgressMatchesRecords ==
  NoTaskInFlight =>
    /\ processed_urls = Len(records)
    /\ emails_found = SumEmails(records)
    /\ progress = Percent(processed_urls, total_urls)
    /\ progress \in 0..100

(***************************************************************************)
(* Properties of the extraction functions                                  *)
(***************************************************************************)
\* The local part and the domain of an address with one "@", lowercased.
LocalOf(e) == SubSeq(lower(e), 1, LastAt(e) - 1)

DomainOf(e) == SubSeq(lower(e), LastAt(e) + 1, Len(e))

\* The separators of a local part.
Separators == {"-", "_", "."}

\* The blocked prefixes as local parts can start with them.
BlockedPrefixes == { Without(blocked, {"@"}) : blocked \in BLOCKED_EMAIL_PREFIXES }

\* The address meets one of the five rejection rules.
HitsRule(e) ==
  \/ Len(e) < 5
  \/ Len(LocalOf(e)) < 2
  \/ \E blocked \in BLOCKED_EMAIL_DOMAINS :
       \/ DomainOf(e) = blocked
       \/ EndsWith(DomainOf(e), <<".">> \o blocked)
  \/ \E blocked \in BlockedPrefixes : StartsWith(LocalOf(e), blocked)
  \/ \A i \in 1..Len(LocalOf(e)) : LocalOf(e)[i] \in Digits \cup Separators

\* C23: is_valid_email rejects an address that is shorter than 5, whose
\* local part is shorter than 2, whose domain is a blocked domain or a
\* subdomain of one, whose local part starts with a blocked prefix or is
\* made of digits and separators only, and accepts an address of ordinary
\* length that meets none of these rules; noreply@example.com, a@sentry.io
\* and 12345678901@x.com are rejected, jane.doe@acme-corp.com is accepted.
C23_ValidEmailRules ==
  (xpc = "done" /\ "@" \in Range(in_email)) =>
    /\ HitsRule(in_email) => out_valid = "False"
    /\ (~HitsRule(in_email) /\ Len(LocalOf(in_email)) <= 30)
         => out_valid = "True"
    /\ in_email \in { Chars("noreply@example.com"), Chars("a@sentry.io"),
                      Chars("12345678901@x.com") } => out_valid = "False"
    /\ in_email = Chars("jane.doe@acme-corp.com") => out_valid = "True"

\* C24: extract_emails_from_text, applied to a valid address written with a
\* supported marker in the place of its "@" and of its dots, returns that
\* address and nothing else.
C24_ObfuscationRoundTrip ==
  (xpc = "done" /\ intended # <<>>) => out_emails = <<intended>>

ShareTexts == { Chars("share"), Chars("tweet this"), Chars("pin it") }

\* The link is a share action for the platform: its href holds one of the
\* platform's share-path tokens, or its text or its class a share word.
ShareAction(link, platform) ==
  LET href == lower(link.href)
      text == lower(link.text)
      class == lower(link.class)
  IN  \/ \E token \in ConfigOf(platform).exclude :
           Contains(href, lower(token))
      \/ \E word \in ShareTexts : Contains(text, word)
      \/ \E word \in SHARE_CLASSES : Contains(class, word)

\* The candidate passes every check for the platform but the one on the
\* length.  Every href of the model names one platform at most.
PassesOtherChecks(link, platform) ==
  /\ ~Skipped(link.href)
  /\ HasDomain(link.href, ConfigOf(platform))
  /\ ~ShareAction(link, platform)

ProfileLink == Chars("https://facebook.com/acmecorp")

C27_AcceptedFrom20 ==
  xpc = "done" =>
    \A platform \in Platforms :
      out_social[platform] # <<>> <=>
        \E i \in 1..Len(in_soup) :
          /\ PassesOtherChecks(in_soup[i], platform)
          /\ Len(clean_social_url(in_soup[i].href)) >= 20

\* The URL a link of the page resolves to, fragment and query stripped.
Resolved(link) == CleanUrl(urljoin(page_url, link.href))

OnDomain(link) == is_same_domain(page_url, urljoin(page_url, link.href))

\* The href or the text of the link holds a contact keyword.
HasContactKeyword(link) ==
  \E keyword \in CONTACT_KEYWORDS :
    Contains(lower(link.href), keyword) \/ Contains(lower(link.text), keyword)

AllCategorized ==
  out_links["contact"] \o out_links["header"] \o out_links["footer"]
    \o out_links["body"]

\* C26: a same-domain link whose href or text holds a contact keyword is in
\* the contact category and in no other one, whatever its container and
\* whatever links of the same resolved URL stand before it; a resolved URL
\* is in the four categories once at most and no off-domain URL is in them.
C26_ContactLinksInContact ==
  xpc = "done" =>
    /\ \A i \in 1..Len(in_anchors) :
         (OnDomain(in_anchors[i]) /\ HasContactKeyword(in_anchors[i])) =>
           /\ Resolved(in_anchors[i]) \in Range(out_links["contact"])
           /\ \A c \in Categories \ {"contact"} :
                Resolved(in_anchors[i]) \notin Range(out_links[c])
    /\ \A i, j \in 1..Len(AllCategorized) :
         AllCategorized[i] = AllCategorized[j] => i = j
    /\ \A i \in 1..Len(AllCategorized) :
         is_same_domain(page_url, AllCategorized[i])

(***************************************************************************)
(* Properties of the page layer (SpecPage)                                 *)
(***************************************************************************)
\* The first n elements of a sequence, all of it when it is shorter.
FirstN(links, n) == SubSeq(links, 1, Min(n, Len(links)))

\* contact ++ footer ++ header ++ body without the links an exclusion
\* pattern matches and without repeats, the first occurrence kept.
Candidates(links) ==
  LET collected == links["contact"] \o links["footer"] \o links["header"]
                     \o links["body"]
      Kept(link) == \A pattern \in url_exclusion_patterns :
                      pattern \notin Range(link)
      unexcluded == SelectSeq(collected, Kept)
      FirstOccurrence(i) == \A j \in 1..(i - 1) : unexcluded[j] # unexcluded[i]
      RECURSIVE Firsts(_)
      Firsts(i) == IF i > Len(unexcluded) THEN <<>>
                   ELSE IF FirstOccurrence(i)
                          THEN <<unexcluded[i]>> \o Firsts(i + 1)
                          ELSE Firsts(i + 1)
  IN  Firsts(1)

\* C14: the links chosen for the crawl of a homepage are the first
\* max_internal_links elements of contact ++ footer ++ header ++ body, after
\* the excluded links and the repeats are removed.
C14_CrawlSetIsPrefix ==
  [][ (hpc = "page" /\ hpc' = "crawl")
        => links_to_scrape' = FirstN(Candidates(page_links),
                                     max_internal_links) ]_vars

\* C17: while the aggregate of a homepage is built, the email set only
\* grows and is the union of the emails of the pages fetched with success
\* (the homepage's emails at first, then those of every internal page added
\* to them, a failed page adding nothing); and a platform's social link, once
\* in the aggregate, is never replaced.
C17_AggregateAccumulates ==
  /\ [][ /\ (hpc = "page" /\ hpc' = "crawl") => all_emails' = int_emails'
         /\ hpc = "crawl" =>
              /\ all_emails \subseteq all_emails'
              /\ all_emails' = all_emails \cup int_emails'
              /\ \A platform \in Platforms :
                   social_links[platform] # "None"
                     => social_links'[platform] = social_links[platform] ]_vars
  /\ [](int_emails \subseteq all_emails)

\* The aggregate holds the emails of two pages and a social link, and the
\* loop is past at least one internal page.
C17_Witness ==
  /\ hpc = "crawl"
  /\ link_idx >= 1
  /\ Cardinality(all_emails) = 2
  /\ int_emails # {}
  /\ int_emails # all_emails
  /\ \E platform \in Platforms : social_links[platform] # "None"

\* C18: every email of a stored record passed is_valid_email, under the
\* filters the query yielded then, when it entered the aggregate; the stored
\* list is the aggregate; it satisfies the built-in rules and holds no two
\* entries that are equal up to letter case.
C18_StoredEmailsValid ==
  /\ [][ /\ \A e \in all_emails' \ all_emails : is_valid_email(e, FiltersFound)
         /\ (hpc # "saved" /\ hpc' = "saved") => emails_list' = all_emails ]_vars
  /\ [](\A e \in emails_list : is_valid_email(e, {}))
  /\ [](\A e1, e2 \in emails_list : lower(e1) = lower(e2) => e1 = e2)

\* A stored record with the emails of two pages.
C18_Witness ==
  /\ hpc = "saved"
  /\ link_idx >= 1
  /\ Cardinality(emails_list) = 2

\* The internal pages fetched for the homepage so far: every link the loop
\* added to checked_links was handed to scrape_with_fallback.
FetchedInternal == checked_links \ {homepage_url}

\* C28: for every stored max_internal_links of 0 or more, the number of
\* internal pages fetched for the homepage is max_internal_links at most.
C28_FetchedAtMostLimit ==
  (hpc # "idle" /\ max_internal_links >= 0) =>
    Cardinality(FetchedInternal) <= max_internal_links

(***************************************************************************)
(* Properties of the browser pool (SpecBrowser)                            *)
(***************************************************************************)
\* The live threads that hold scraper object i or have run scrape_url on
\* it.
LiveUsers(i) == { t \in alive : scraper[t] = i \/ t \in users[i] }

\* No scraper object is in the hands of two live threads.
NoSharedInstance ==
  \A i \in 1..created : Cardinality(LiveUsers(i)) <= 1

\* Two live threads never got the same scraper object.
DistinctForLiveThreads ==
  \A t, u \in alive :
    (t # u /\ scraper[t] # 0) => scraper[t] # scraper[u]

\* A call of get_selenium_scraper by a thread whose entry is still in the
\* pool returns what the thread's previous call returned.
SameOnRepeatedCalls ==
  \A t \in BThreads :
    (/\ bpc[t] = "counted"
     /\ bpc'[t] = "got"
     /\ scraper[t] # 0
     /\ instance_pool[ident[t]] # 0) => scraper'[t] = scraper[t]

\* No step closes the browser of a thread that is inside scrape_url.
NoForeignClose ==
  \A u \in BThreads :
    (bpc[u] = "scraping" /\ storage_browser[u]) => storage_browser'[u]

C31_BrowserUseBounded ==
  \A t \in BThreads : served[t] <= RecycleEvery

(***************************************************************************)
(* Properties of normalize_url (SpecNormalize)                             *)
(***************************************************************************)
\* C38: normalize_url is idempotent and its result never ends in "/": the
\* key computed from the stored homepage_url is the homepage_url itself.
C38_NormalizeIdempotent ==
  /\ (xpc \in {"stored", "done"} /\ out_url # <<>>) =>
       out_url[Len(out_url)] # "/"
  /\ xpc = "done" => out_key = out_url

====
